---------------------------- MODULE Spec2Model ----------------------------
(***************************************************************************)
(* The chapter-provider layer of MangaXScope: the MangaDex adapter         *)
(* (src/lib/hooks/use-swipe-gesture.ts, lines 180-434) and the Batoto      *)
(* scraper (src/lib/sources/batoto.ts).                                    *)
(*                                                                         *)
(* Each asynchronous function is a small state machine whose steps are     *)
(* its await boundaries: the code between two awaits runs to completion    *)
(* in one action.  The upstream (the same-origin proxy, the Batoto web     *)
(* site) is the environment and answers nondeterministically.              *)
(***************************************************************************)
EXTENDS Integers, Sequences, FiniteSets, TLC

VARIABLES
    \* ---- getMangaDexChapters (one call) ----
    pc,           \* "idle" | "awaitFetch" | "awaitJson" | "returned" | "rejected"
    mangaId,      \* the argument mangaId
    limit,        \* options.limit    (Undefined or Some(n))
    language,     \* options.language (Undefined or Some(code))
    offset,       \* let offset
    allChapters,  \* const allChapters
    result,       \* the value the promise resolved to
    error,        \* the error the promise rejected with
    feed,         \* environment: what the upstream feed holds
    pending,      \* environment: length of the body of the response being parsed
    requests,     \* history: the requests issued, in order
    responses,    \* history: the responses received, in order
    \* ---- mangadexSource.getChapterPages (one call) ----
    cpPc,         \* "idle" | "awaitFetch" | "awaitJson" | "returned" | "rejected"
    cpKey,        \* the argument chapterId (the composite key)
    cpData,       \* environment: the body of the response being parsed
    cpRequests,   \* history: the requests issued, in order
    cpResult,     \* the value the promise resolved to
    cpError,      \* the error the promise rejected with
    \* ---- scrapeBatotoChapters (one call) ----
    btPc,         \* "idle" | "awaitFetch" | "awaitText" | "returned" | "rejected"
    seriesId,     \* the argument seriesId
    btHtml,       \* environment: the body of the response being read
    btRequests,   \* history: the requests issued, in order
    btResponses,  \* history: the responses received, in order
    btResult,     \* the value the promise resolved to
    btError,      \* the error the promise rejected with
    \* ---- testBatotoConnection (one call, around one scrape) ----
    tcPc,         \* "idle" | "awaitScrape" | "resolved"
    tcResult,     \* the value the promise resolved to
    \* ---- scrapeBatotoChapterPages (one call) ----
    bpPc,         \* "idle" | "awaitFetch" | "awaitText" | "returned" | "rejected"
    bpChapterId,  \* the argument chapterId
    bpDoc,        \* environment: the document in the body being read
    bpRequests,   \* history: the requests issued, in order
    bpResponses,  \* history: the responses received, in order
    bpTried,      \* history: the strategies run, in order
    bpResult,     \* the value the promise resolved to
    bpError,      \* the error the promise rejected with
    \* ---- getMangaDexChapterCount / getMangaDexLanguageBreakdown (one call) ----
    ccPc,         \* "idle" | "awaitFetch" | "awaitJson" | "resolved" | "rejected"
    ccOp,         \* which of the two was called: "count" | "breakdown"
    ccBody,       \* environment: the body of the response being parsed
    ccRequests,   \* history: the requests issued, in order
    ccOutcome,    \* history: how the request ended
    ccCount,      \* the number getMangaDexChapterCount resolved to
    ccBreakdown,  \* the object getMangaDexLanguageBreakdown resolved to
    \* ---- validateBatotoSeriesInput (one call) ----
    viPc,         \* "idle" | "returned"
    viInput,      \* the argument input
    viOutput,     \* the value returned
    \* ---- the Batoto API routes and batotoSource (one request or call) ----
    rtPc,         \* "idle" | "delaying" | "awaitScrape" | "responded"
    rtOp,         \* "pagesRoute" | "chaptersRoute" | "sourcePages" | "sourceChapters"
    rtParam,      \* the query parameter (Null when absent) or the argument
    rtTimer,      \* the pending setTimeout of delay(ms): Null or Some(ms)
    rtDelays,     \* history: the delays that have completed
    rtStatus,     \* the status of the response sent (0: none)
    \* ---- /api/sources/batoto/link: POST, DELETE, GET (one request at a time) ----
    lkDb,         \* the manga table: the stored externalSource of every manga
    lkPc,         \* "idle" | "awaitBody" | "awaitFind" | "awaitTest" | "awaitUpdate" | "responded"
    lkMethod,     \* "POST" | "DELETE" | "GET"
    lkBody,       \* the request: the body of a POST, the query of the others
    lkNormalized, \* const normalizedSeriesId
    lkStatus,     \* the status of the response sent (0: none)
    lkReply,      \* the body of GET's 200 response
    lkDbBefore,   \* history: the table when the request arrived
    lkLast,       \* history: the last write to every manga's externalSource
    \* ---- BatotoReaderPage (read/[mangaId]/batoto/[chapterId]) ----
    rdPc,         \* "closed" | "open"
    rdChapterId,  \* params.chapterId
    rdChapterList,\* data of the chapter-list query: undefined until loaded
    rdFrom,       \* history: the chapterId shown when the last push was made
    rdVia,        \* history: what made the last push ("" when none)
    \* ---- the service worker (one fetch event at a time) ----
    swCache,      \* the entries of the three caches
    swPuts,       \* the cache.put calls that wait for caches.open
    swPc,         \* "idle" | "awaitNetwork" | "awaitMatch" | "responded" | "ignored"
    swRequest,    \* event.request
    swBranch,     \* "" | "api" | "static" | "other"
    swFellBack,   \* the network failed and the cache is asked instead
    swAnswer,     \* what respondWith's promise settled with
    \* ---- SearchBar ----
    sbMounted,        \* the component is mounted
    sbUrlQ,           \* the q parameter of the URL: null when absent
    sbLocalValue,     \* useState localValue
    sbIsDebouncing,   \* useState isDebouncing
    sbTimerRef,       \* debounceTimerRef.current: null or a timer id
    sbTimers,         \* the timers that are set and have not fired
    sbNextId,         \* the id the next setTimeout returns
    sbInternal,       \* isInternalUpdateRef.current
    sbLastInput,      \* history: the last keystroke's value or the clear
    sbLastWrite,      \* history: the last setSearch and the input it followed
    \* ---- PullToRefresh ----
    prScrollTop,      \* container.scrollTop
    prTouching,       \* a finger is on the container
    prCanPull,        \* canPullRef.current
    prStartY,         \* startYRef.current: null or a clientY
    prIsPulling,      \* useState isPulling
    prIsRefreshing,   \* useState isRefreshing
    prPullDistance,   \* useState pullDistance
    prSeen,           \* pullDistance and isRefreshing as the attached handlers captured them
    prPending,        \* the onRefresh calls that have not settled
    prGestureTop,     \* history: scrollTop at the last touchstart (-1: none)
    prInvoked,        \* history: how the last onRefresh call came about
    prSettled         \* history: "" | "resolved" | "rejected", the last settling

mdVars == <<pc, mangaId, limit, language, offset, allChapters, result, error,
            feed, pending, requests, responses>>
cpVars == <<cpPc, cpKey, cpData, cpRequests, cpResult, cpError>>
btVars == <<btPc, seriesId, btHtml, btRequests, btResponses, btResult, btError>>
tcVars == <<tcPc, tcResult>>
bpVars == <<bpPc, bpChapterId, bpDoc, bpRequests, bpResponses, bpTried,
            bpResult, bpError>>
ccVars == <<ccPc, ccOp, ccBody, ccRequests, ccOutcome, ccCount, ccBreakdown>>
viVars == <<viPc, viInput, viOutput>>
rtVars == <<rtPc, rtOp, rtParam, rtTimer, rtDelays, rtStatus>>
lkVars == <<lkDb, lkPc, lkMethod, lkBody, lkNormalized, lkStatus, lkReply,
            lkDbBefore, lkLast>>
rdVars == <<rdPc, rdChapterId, rdChapterList, rdFrom, rdVia>>

\* The state of the API and the hooks, and the state of the pages.
apiVars == <<mdVars, cpVars, btVars, tcVars, bpVars, ccVars, viVars, rtVars,
             lkVars>>
swVars == <<swCache, swPuts, swPc, swRequest, swBranch, swFellBack, swAnswer>>
sbVars == <<sbMounted, sbUrlQ, sbLocalValue, sbIsDebouncing, sbTimerRef,
            sbTimers, sbNextId, sbInternal, sbLastInput, sbLastWrite>>
prVars == <<prScrollTop, prTouching, prCanPull, prStartY, prIsPulling,
            prIsRefreshing, prPullDistance, prSeen, prPending, prGestureTop,
            prInvoked, prSettled>>
uiVars == <<rdVars, swVars, sbVars, prVars>>

vars == <<apiVars, uiVars>>

-----------------------------------------------------------------------------
(* JavaScript values *)

\* An optional value: undefined, or a value v.
Undefined == <<>>
Some(v) == <<v>>

\* `if (limit && ...)`: a number is truthy unless it is undefined or 0.
TruthyNumber(o) == o # Undefined /\ o[1] # 0

\* `if (language)`: a string is truthy unless it is undefined or "".
TruthyString(o) == o # Undefined /\ o[1] # ""

\* Array.prototype.slice(0, n) for 0 <= n.
Slice0(s, n) == SubSeq(s, 1, IF n < Len(s) THEN n ELSE Len(s))

NoError == [kind |-> "none", status |-> 0]

-----------------------------------------------------------------------------
(* Bounds of the model *)

\* A page that ends the pagination has 0..MaxShort items, or batchSize - 1.
MaxShort == 1
\* options.limit ranges over undefined and 0..MaxLimit.
MaxLimit == 2
\* One more short page length: the 200-item second page of the specification's
\* example (500 + 200 = 700 chapters).
ExampleShort == 200

(* Program constants *)
batchSize == 500
SafetyLimit == 10000

MangaIds == {"m1"}
Languages == {"en", "ja"}
NotOkStatuses == {404, 500}

\* The upstream feed: the chapter at position p (1, 2, ...) has id p and the
\* language langs[(p % Len(langs)) + 1].  With shift = 1 the list grew by one
\* entry at its head after the first request, so that every later page
\* starts with the chapter the previous page ended with.
Feeds ==
    { [shift |-> 0, langs |-> <<"en">>],
      [shift |-> 0, langs |-> <<"ja", "en">>],
      [shift |-> 1, langs |-> <<"es", "en", "ja">>] }

FeedItem(f, p) ==
    [id |-> p, language |-> f.langs[(p % Len(f.langs)) + 1],
     scanlationGroup |-> "g"]

\* data.chapters of the response to ?limit=batchSize&offset=off holding n items.
UpstreamPage(f, off, n) ==
    LET first == IF off = 0 THEN 0 ELSE off - f.shift
    IN  [i \in 1..n |-> FeedItem(f, first + i)]

PageLengths == (0..MaxShort) \cup {ExampleShort, batchSize - 1, batchSize}

-----------------------------------------------------------------------------
(* getMangaDexChapters *)

\* The request URL `/api/reader/${mangaId}/chapters?limit=${batchSize}&offset=${offset}`.
ChaptersRequest(m, off) == [mangaId |-> m, limit |-> batchSize, offset |-> off]

\* Mutants of IsFirstPage: the test inverted; every failed page throws.
IsFirstPageInverted(off) == off # 0
IsFirstPageAlways(off) == off >= 0

\* `if (offset === 0)`: a failed first page throws.
IsFirstPage(off) == off = 0

\* data.chapters.map(ch => ({id, chapter, volume, title, language, ...})):
\* the unified record keeps the chapter's own fields and drops scanlationGroup.
ToSourceChapter(ch) == [id |-> ch.id, language |-> ch.language]

TransformPage(page) == [i \in 1..Len(page) |-> ToSourceChapter(page[i])]

\* allChapters.push(...chapters)
PushAll(all, chapters) == all \o chapters

\* Mutant of PageExhausted: only an empty page ends the loop.
PageExhaustedWhenEmpty(n) == n = 0

\* `if (data.chapters.length < batchSize) break`
PageExhausted(n) == n < batchSize

\* Mutant of NextOffset: the offset counts pages, not items (offset++).
NextOffsetByOne(off) == off + 1

\* offset += batchSize
NextOffset(off) == off + batchSize

\* Mutant of SafetyLimitReached: the loop stops one page later.
SafetyLimitReachedLate(off) == off > SafetyLimit + batchSize

\* `if (offset > 10000) break`
SafetyLimitReached(off) == off > SafetyLimit

\* Mutant of FilterLanguage: the filtered array is dropped (filter does not
\* change the array it is called on).
FilterLanguageDropped(chs, lang) == chs

\* result.filter((ch) => ch.language === language)
FilterLanguage(chs, lang) == SelectSeq(chs, LAMBDA ch : ch.language = lang)

\* `if (language) result = result.filter(...)`
ApplyLanguage(chs, lang) ==
    IF TruthyString(lang) THEN FilterLanguage(chs, lang[1]) ELSE chs

\* `if (limit && result.length > limit) result = result.slice(0, limit)`
ApplyLimit(chs, lim) ==
    IF TruthyNumber(lim) /\ Len(chs) > lim[1] THEN Slice0(chs, lim[1]) ELSE chs

\* Lines 308-321: the client-side filters applied after the loop.
PostProcess(chs, lang, lim) == ApplyLimit(ApplyLanguage(chs, lang), lim)

\* getMangaDexChapters(mangaId, options) is called: the first fetch is issued.
CallGetMangaDexChapters(m, lim, lang, f) ==
    /\ UNCHANGED <<cpVars, btVars, tcVars, bpVars, ccVars, viVars, rtVars,
                 lkVars, uiVars>>
    /\ pc = "idle"
    /\ pc' = "awaitFetch"
    /\ mangaId' = m
    /\ limit' = lim
    /\ language' = lang
    /\ feed' = f
    /\ offset' = 0
    /\ allChapters' = <<>>
    /\ requests' = <<ChaptersRequest(m, 0)>>
    /\ UNCHANGED <<result, error, pending, responses>>

\* The loop is left (break): filter, truncate, return.
Return(all) ==
    /\ pc' = "returned"
    /\ result' = PostProcess(all, language, limit)
    /\ UNCHANGED <<error, requests>>

\* Mutant of FetchOk: the next page is requested as soon as the response
\* arrives, before its body is parsed.
FetchOkPrefetching(n) ==
    /\ UNCHANGED <<cpVars, btVars, tcVars, bpVars, ccVars, viVars, rtVars,
                 lkVars, uiVars>>
    /\ pc = "awaitFetch"
    /\ pc' = "awaitJson"
    /\ pending' = n
    /\ responses' = Append(responses, [ok |-> TRUE, status |-> 200, n |-> n])
    /\ requests' = Append(requests,
                          ChaptersRequest(mangaId, offset + batchSize))
    /\ UNCHANGED <<mangaId, limit, language, feed, offset, allChapters,
                   result, error>>

\* `await fetch(...)` resolves with an OK response: the body is parsed next.
FetchOk(n) ==
    /\ UNCHANGED <<cpVars, btVars, tcVars, bpVars, ccVars, viVars, rtVars,
                 lkVars, uiVars>>
    /\ pc = "awaitFetch"
    /\ pc' = "awaitJson"
    /\ pending' = n
    /\ responses' = Append(responses, [ok |-> TRUE, status |-> 200, n |-> n])
    /\ UNCHANGED <<mangaId, limit, language, feed, offset, allChapters,
                   result, error, requests>>

\* `await fetch(...)` resolves with a non-OK response.
FetchNotOk(status) ==
    /\ UNCHANGED <<cpVars, btVars, tcVars, bpVars, ccVars, viVars, rtVars,
                 lkVars, uiVars>>
    /\ pc = "awaitFetch"
    /\ responses' = Append(responses, [ok |-> FALSE, status |-> status, n |-> 0])
    /\ IF IsFirstPage(offset)
         THEN /\ pc' = "rejected"
              /\ error' = [kind |-> "http", status |-> status]
              /\ UNCHANGED <<result, requests>>
         ELSE Return(allChapters)
    /\ UNCHANGED <<mangaId, limit, language, feed, offset, allChapters, pending>>

\* `await fetch(...)` rejects (network failure): nothing catches it.
FetchThrows ==
    /\ UNCHANGED <<cpVars, btVars, tcVars, bpVars, ccVars, viVars, rtVars,
                 lkVars, uiVars>>
    /\ pc = "awaitFetch"
    /\ pc' = "rejected"
    /\ error' = [kind |-> "network", status |-> 0]
    /\ UNCHANGED <<mangaId, limit, language, feed, offset, allChapters,
                   result, pending, requests, responses>>

\* `await response.json()` resolves: lines 281-305, then the next fetch or
\* the return.
JsonOk ==
    /\ UNCHANGED <<cpVars, btVars, tcVars, bpVars, ccVars, viVars, rtVars,
                 lkVars, uiVars>>
    /\ pc = "awaitJson"
    /\ LET page == UpstreamPage(feed, offset, pending)
           all  == PushAll(allChapters, TransformPage(page))
           next == NextOffset(offset)
       IN  /\ allChapters' = all
           /\ IF PageExhausted(Len(page))
                THEN /\ Return(all)
                     /\ offset' = offset
                ELSE /\ offset' = next
                     /\ IF SafetyLimitReached(next)
                          THEN Return(all)
                          ELSE /\ pc' = "awaitFetch"
                               /\ requests' = Append(requests,
                                                     ChaptersRequest(mangaId, next))
                               /\ UNCHANGED <<result, error>>
    /\ UNCHANGED <<mangaId, limit, language, feed, pending, responses>>

\* `await response.json()` rejects (the body is not JSON): nothing catches it.
JsonThrows ==
    /\ UNCHANGED <<cpVars, btVars, tcVars, bpVars, ccVars, viVars, rtVars,
                 lkVars, uiVars>>
    /\ pc = "awaitJson"
    /\ pc' = "rejected"
    /\ error' = [kind |-> "parse", status |-> 0]
    /\ UNCHANGED <<mangaId, limit, language, feed, offset, allChapters,
                   result, pending, requests, responses>>

LimitOptions == {Undefined} \cup {Some(n) : n \in 0..MaxLimit}
LanguageOptions == {Undefined} \cup {Some(l) : l \in Languages}

MdIdle ==
    /\ pc = "idle"
    /\ mangaId = ""
    /\ limit = Undefined
    /\ language = Undefined
    /\ offset = 0
    /\ allChapters = <<>>
    /\ result = <<>>
    /\ error = NoError
    /\ feed = [shift |-> 0, langs |-> <<"en">>]
    /\ pending = 0
    /\ requests = <<>>
    /\ responses = <<>>

NextMangaDex ==
    \/ \E m \in MangaIds, lim \in LimitOptions, lang \in LanguageOptions, f \in Feeds :
         CallGetMangaDexChapters(m, lim, lang, f)
    \/ \E n \in PageLengths : FetchOk(n)
    \/ \E s \in NotOkStatuses : FetchNotOk(s)
    \/ FetchThrows
    \/ JsonOk
    \/ JsonThrows

-----------------------------------------------------------------------------
(* Strings that the code takes apart are tuples of one-character strings. *)

\* String.prototype.includes(c) for a one-character c.
Includes(s, c) == \E i \in 1..Len(s) : s[i] = c

\* The index of the first c in s, 0 when there is none.
IndexOf(s, c) ==
    IF Includes(s, c)
      THEN CHOOSE i \in 1..Len(s) : s[i] = c /\ \A j \in 1..(i - 1) : s[j] # c
      ELSE 0

\* String.prototype.split(sep) without a limit: s is cut at every sep.
RECURSIVE Split(_, _)
Split(s, sep) ==
    LET i == IndexOf(s, sep)
    IN  IF i = 0 THEN <<s>>
        ELSE <<SubSeq(s, 1, i - 1)>> \o Split(SubSeq(s, i + 1, Len(s)), sep)

\* The keys tried: every string of at most MaxKeyLen characters over KeyChars.
MaxKeyLen == 4
KeyChars == {"m", "c", ":"}
Keys == UNION { [1..n -> KeyChars] : n \in 0..MaxKeyLen }

\* The image lists tried: at most MaxImages URLs.
MaxImages == 2
ImageUrls == {"u1", "u2"}
ImageLists == UNION { [1..n -> ImageUrls] : n \in 0..MaxImages }

-----------------------------------------------------------------------------
(* mangadexSource.getChapterPages and getMangaDexChapterPages *)

\* `const [mangaId, actualChapterId] = chapterId.includes(":")
\*     ? chapterId.split(":") : ["", chapterId]`
\* The destructuring takes the first two elements of the array.
SplitKey(chapterId) ==
    LET parts == IF Includes(chapterId, ":")
                   THEN Split(chapterId, ":")
                   ELSE <<<<>>, chapterId>>
    IN  [mangaId |-> parts[1], actualChapterId |-> parts[2]]

\* Mutant of MissingMangaId: only undefined is refused, and the first
\* element of the array never is.
MissingMangaIdUndefinedOnly(m) == FALSE

\* `if (!mangaId) throw`: the empty string is falsy.
MissingMangaId(m) == m = <<>>

\* The request URL `/api/reader/${mangaId}/${chapterId}?dataSaver=${dataSaver}`.
PagesRequest(m, c) == [mangaId |-> m, chapterId |-> c, dataSaver |-> TRUE]

\* data.images.map((url, index) => ({ index, imageUrl: url }))
ToPages(images) ==
    [i \in 1..Len(images) |-> [index |-> i - 1, imageUrl |-> images[i]]]

\* mangadexSource.getChapterPages(chapterId) is called.
CallGetChapterPages(k) ==
    /\ UNCHANGED <<mdVars, btVars, tcVars, bpVars, ccVars, viVars, rtVars,
                 lkVars, uiVars>>
    /\ cpPc = "idle"
    /\ cpKey' = k
    /\ LET parts == SplitKey(k)
       IN  IF MissingMangaId(parts.mangaId)
             THEN /\ cpPc' = "rejected"
                  /\ cpError' = [kind |-> "format", status |-> 0]
                  /\ UNCHANGED cpRequests
             ELSE /\ cpPc' = "awaitFetch"
                  /\ cpRequests' = Append(cpRequests,
                        PagesRequest(parts.mangaId, parts.actualChapterId))
                  /\ UNCHANGED cpError
    /\ UNCHANGED <<cpData, cpResult>>

\* `await fetch(...)` resolves with an OK response carrying `data`.
PagesFetchOk(data) ==
    /\ UNCHANGED <<mdVars, btVars, tcVars, bpVars, ccVars, viVars, rtVars,
                 lkVars, uiVars>>
    /\ cpPc = "awaitFetch"
    /\ cpPc' = "awaitJson"
    /\ cpData' = data
    /\ UNCHANGED <<cpKey, cpRequests, cpResult, cpError>>

\* `await fetch(...)` resolves with a non-OK response: throw.
PagesFetchNotOk(status) ==
    /\ UNCHANGED <<mdVars, btVars, tcVars, bpVars, ccVars, viVars, rtVars,
                 lkVars, uiVars>>
    /\ cpPc = "awaitFetch"
    /\ cpPc' = "rejected"
    /\ cpError' = [kind |-> "http", status |-> status]
    /\ UNCHANGED <<cpKey, cpData, cpRequests, cpResult>>

\* `await fetch(...)` or `await response.json()` rejects.
PagesThrows ==
    /\ UNCHANGED <<mdVars, btVars, tcVars, bpVars, ccVars, viVars, rtVars,
                 lkVars, uiVars>>
    /\ cpPc \in {"awaitFetch", "awaitJson"}
    /\ cpPc' = "rejected"
    /\ cpError' = [kind |-> IF cpPc = "awaitFetch" THEN "network" ELSE "parse",
                   status |-> 0]
    /\ UNCHANGED <<cpKey, cpData, cpRequests, cpResult>>

\* `await response.json()` resolves: lines 344-353.
PagesJsonOk ==
    /\ UNCHANGED <<mdVars, btVars, tcVars, bpVars, ccVars, viVars, rtVars,
                 lkVars, uiVars>>
    /\ cpPc = "awaitJson"
    /\ cpPc' = "returned"
    /\ cpResult' = [chapterId |-> cpData.chapterId, pages |-> ToPages(cpData.images)]
    /\ UNCHANGED <<cpKey, cpData, cpRequests, cpError>>

NoData == [chapterId |-> <<>>, images |-> <<>>]
NoPages == [chapterId |-> <<>>, pages |-> <<>>]

CpIdle ==
    /\ cpPc = "idle"
    /\ cpKey = <<>>
    /\ cpData = NoData
    /\ cpRequests = <<>>
    /\ cpResult = NoPages
    /\ cpError = NoError

NextChapterPages ==
    \/ cpPc = "idle" /\ \E k \in Keys : CallGetChapterPages(k)
    \/ \E imgs \in ImageLists :
         PagesFetchOk([chapterId |-> cpRequests[1].chapterId, images |-> imgs])
    \/ \E st \in NotOkStatuses : PagesFetchNotOk(st)
    \/ PagesThrows
    \/ PagesJsonOk

-----------------------------------------------------------------------------
(* The Batoto series page, as the scraper sees it *)

Null == <<>>

\* Texts and hrefs the regular expressions take apart are tuples of tokens:
\* a word, a number, or one of the separators "/", "?", "#".
NumberTokens == {"1", "2", "10", "1.5"}

\* The /i flag: the keyword alternatives of parseChapterNumber, as written in
\* the pages.
KeywordTokens == {"Chapter", "chapter", "Ch.", "ch.", "Ch", "ch",
                  "Episode", "episode", "Ep.", "ep.", "Ep", "ep"}

\* The elements matching SELECTORS.chapterList.link, a[href*='/chapter/']:
\*   href   the href attribute,
\*   number the text of the descendants matching chapterList.number,
\*   text   the text of the link itself,
\*   title  the text of the descendants matching chapterList.title,
\*   date   the text of chapterList.date, else the datetime of <time>, else "".
\* closest(chapterList.item) starts at the link, which matches the item
\* selector's a[href*='/chapter/'], so the item is always found.
HrefC1 == <<"/chapter/", "c1">>
HrefC2 == <<"https://mto.to", "/chapter/", "c2", "?", "lang">>
HrefC3 == <<"/chapter/", "c3", "/", "1">>
HrefNoId == <<"/chapter/">>

\* Date texts: an absolute date ("2024-01-01"), "<days> days ago", or other.
AbsoluteDate == [kind |-> "absolute", days |-> 0]
DaysAgo(n) == [kind |-> "relative", days |-> n]
NoDate == [kind |-> "other", days |-> 0]

Links ==
    { [href |-> HrefC1, number |-> <<"Chapter", "10">>, text |-> <<"2">>,
       title |-> <<>>, date |-> AbsoluteDate],
      [href |-> HrefC1, number |-> <<>>, text |-> <<"2">>,
       title |-> <<"2">>, date |-> DaysAgo(3)],
      [href |-> HrefC2, number |-> <<>>, text |-> <<"Ch.", "1.5">>,
       title |-> <<"Side", "story">>, date |-> NoDate],
      [href |-> HrefC2, number |-> <<"Vol", "2">>, text |-> <<"2">>,
       title |-> <<>>, date |-> AbsoluteDate],
      [href |-> HrefC3, number |-> <<"Chapter", "1">>, text |-> <<"1">>,
       title |-> <<"Chapter", "1">>, date |-> NoDate],
      [href |-> HrefC3, number |-> <<"episode", "2">>, text |-> <<>>,
       title |-> <<"Extra">>, date |-> DaysAgo(200000000)],
      [href |-> HrefNoId, number |-> <<"Chapter", "1">>, text |-> <<"1">>,
       title |-> <<>>, date |-> AbsoluteDate] }

\* A page holds at most MaxLinks chapter links.
MaxLinks == 3
HtmlPages == UNION { [1..n -> Links] : n \in 0..MaxLinks }

\* The day (since 1 January 1970) on which the scrape runs.
NowDays == {20759}

SeriesIds == {"s1"}

-----------------------------------------------------------------------------
(* scrapeBatotoChapters *)

\* The least element of a non-empty set of indices (the first match).
Least(S) == CHOOSE i \in S : \A j \in S : i <= j

\* url.match(/\/chapter\/([^/?#]+)/): the segment after the first "/chapter/"
\* that is followed by one, null when there is none.
extractBatotoChapterId(href) ==
    LET hits == { i \in 1..(Len(href) - 1) :
                    /\ href[i] = "/chapter/"
                    /\ href[i + 1] \notin {"/", "?", "#"} }
    IN  IF hits = {} THEN Null ELSE Some(href[Least(hits) + 1])

\* /(?:chapter|ch\.?|episode|ep\.?)\s*(\d+(?:\.\d+)?)/i, then /^(\d+(?:\.\d+)?)/.
parseChapterNumber(text) ==
    LET hits == { i \in 1..(Len(text) - 1) :
                    /\ text[i] \in KeywordTokens
                    /\ text[i + 1] \in NumberTokens }
    IN  IF hits # {} THEN Some(text[Least(hits) + 1])
        ELSE IF text # <<>> /\ text[1] \in NumberTokens THEN Some(text[1])
        ELSE Null

\* parseFloat of a chapter number, in tenths.
ParseFloatTenths(s) ==
    CASE s = "1"   -> 10
      [] s = "2"   -> 20
      [] s = "10"  -> 100
      [] s = "1.5" -> 15

\* A Date holds a time value within 100,000,000 days of the epoch, else it
\* is invalid and toISOString() throws a RangeError.
ValidDay(day) == day >= -100000000 /\ day <= 100000000

\* parseDate: an absolute date is parsed; "<n> days ago" is now minus n days
\* (now.setDate(...), then now.toISOString()); anything else is now.
parseDate(text, now) ==
    CASE text.kind = "absolute" -> [threw |-> FALSE, value |-> <<"date">>]
      [] text.kind = "relative" ->
           IF ValidDay(now - text.days)
             THEN [threw |-> FALSE, value |-> <<"day", now - text.days>>]
             ELSE [threw |-> TRUE, value |-> <<>>]
      [] OTHER -> [threw |-> FALSE, value |-> <<"day", now>>]

\* `$item.find(chapterList.number).text() || $el.text()`
NumberTextOf(link) == IF link.number # <<>> THEN link.number ELSE link.text

\* `$item.find(chapterList.title).text().trim() || null`
TitleTextOf(link) == IF link.title # <<>> THEN link.title ELSE Null

\* `title: titleText !== chapterNumber ? titleText : null`; the chapter number
\* is the one-token text <<n>>, or null.
TitleOf(titleText, chapterNumber) ==
    IF titleText # chapterNumber THEN titleText ELSE Null

\* The body of chapterLinks.each for one link: the chapters pushed (none when
\* the href holds no chapter id), or the exception thrown.
ChapterOfLink(link, now) ==
    LET chapterId == extractBatotoChapterId(link.href)
        chapterNumber == parseChapterNumber(NumberTextOf(link))
        publishedAt == parseDate(link.date, now)
    IN  IF chapterId = Null THEN [threw |-> FALSE, value |-> <<>>]
        ELSE IF publishedAt.threw THEN [threw |-> TRUE, value |-> <<>>]
        ELSE [threw |-> FALSE,
              value |-> << [id |-> chapterId[1],
                            chapter |-> chapterNumber,
                            volume |-> Null,
                            title |-> TitleOf(TitleTextOf(link), chapterNumber),
                            language |-> "en",
                            pages |-> 0,
                            publishedAt |-> publishedAt.value,
                            externalUrl |->
                              <<"https://mto.to", "/chapter/", chapterId[1]>>] >>]

\* chapterLinks.each(...): the chapters pushed in document order; an
\* exception in the callback ends the scrape.
RECURSIVE ChaptersOfLinks(_, _)
ChaptersOfLinks(links, now) ==
    IF links = <<>> THEN [threw |-> FALSE, value |-> <<>>]
    ELSE LET first == ChapterOfLink(Head(links), now)
             rest  == ChaptersOfLinks(Tail(links), now)
         IN  IF first.threw \/ rest.threw THEN [threw |-> TRUE, value |-> <<>>]
             ELSE [threw |-> FALSE, value |-> first.value \o rest.value]

\* `a.chapter ? parseFloat(a.chapter) : 0`
SortKey(ch) == IF ch.chapter # Null THEN ParseFloatTenths(ch.chapter[1]) ELSE 0

\* Mutant of SortsAfter: the comparator is `numB - numA`.
SortsAfterDescending(a, b) == SortKey(b) - SortKey(a) > 0

\* The comparator `numA - numB` is positive: a sorts after b.
SortsAfter(a, b) == SortKey(a) - SortKey(b) > 0

\* Array.prototype.sort, which is stable: insertion from the left.
RECURSIVE InsertSorted(_, _)
InsertSorted(sorted, ch) ==
    IF sorted = <<>> THEN <<ch>>
    ELSE IF SortsAfter(sorted[Len(sorted)], ch)
           THEN Append(InsertSorted(SubSeq(sorted, 1, Len(sorted) - 1), ch),
                       sorted[Len(sorted)])
           ELSE Append(sorted, ch)

RECURSIVE SortChapters(_)
SortChapters(chs) ==
    IF chs = <<>> THEN <<>>
    ELSE InsertSorted(SortChapters(SubSeq(chs, 1, Len(chs) - 1)), chs[Len(chs)])

\* `if (chapterLinks.length === 0) return []`
NoChapterLinks(links) == Len(links) = 0

\* Mutant of ScrapedChapters: a page without chapter links throws.
ScrapedChaptersThrowsOnNone(links, now) ==
    IF NoChapterLinks(links) THEN [threw |-> TRUE, value |-> <<>>]
    ELSE LET pushed == ChaptersOfLinks(links, now)
         IN  IF pushed.threw THEN pushed
             ELSE [threw |-> FALSE, value |-> SortChapters(pushed.value)]

\* Lines 219-277: what the scrape does with the parsed page.
ScrapedChapters(links, now) ==
    IF NoChapterLinks(links) THEN [threw |-> FALSE, value |-> <<>>]
    ELSE LET pushed == ChaptersOfLinks(links, now)
         IN  IF pushed.threw THEN pushed
             ELSE [threw |-> FALSE, value |-> SortChapters(pushed.value)]

\* The request URL `${BATOTO_BASE_URL}/series/${seriesId}`.
SeriesRequest(sid) == <<"https://mto.to", "/series/", sid>>

\* scrapeBatotoChapters(seriesId) is called (also through
\* batotoSource.getChapters): the fetch is issued.
CallScrapeBatotoChapters(sid) ==
    /\ UNCHANGED <<mdVars, cpVars, bpVars, ccVars, viVars, uiVars>>
    /\ btPc = "idle"
    /\ btPc' = "awaitFetch"
    /\ seriesId' = sid
    /\ btRequests' = Append(btRequests, SeriesRequest(sid))
    /\ UNCHANGED <<btHtml, btResponses, btResult, btError>>

\* `await fetchWithTimeout(url)` resolves with an OK response.
BatotoFetchOk(html) ==
    /\ UNCHANGED <<mdVars, cpVars, tcVars, bpVars, ccVars, viVars, rtVars,
                 lkVars, uiVars>>
    /\ btPc = "awaitFetch"
    /\ btPc' = "awaitText"
    /\ btHtml' = html
    /\ btResponses' = Append(btResponses,
                             [ok |-> TRUE, status |-> 200, links |-> Len(html)])
    /\ UNCHANGED <<seriesId, btRequests, btResult, btError>>

\* `await fetchWithTimeout(url)` resolves with a non-OK response: throw.
BatotoFetchNotOk(status) ==
    /\ UNCHANGED <<mdVars, cpVars, tcVars, bpVars, ccVars, viVars, rtVars,
                 lkVars, uiVars>>
    /\ btPc = "awaitFetch"
    /\ btPc' = "rejected"
    /\ btError' = [kind |-> "http", status |-> status]
    /\ btResponses' = Append(btResponses,
                             [ok |-> FALSE, status |-> status, links |-> 0])
    /\ UNCHANGED <<seriesId, btHtml, btRequests, btResult>>

\* `await fetchWithTimeout(url)` rejects: the timeout aborted the request, or
\* the network failed.
BatotoFetchThrows(kind) ==
    /\ UNCHANGED <<mdVars, cpVars, tcVars, bpVars, ccVars, viVars, rtVars,
                 lkVars, uiVars>>
    /\ btPc = "awaitFetch"
    /\ btPc' = "rejected"
    /\ btError' = [kind |-> kind, status |-> 0]
    /\ UNCHANGED <<seriesId, btHtml, btRequests, btResponses, btResult>>

\* `await response.text()` resolves: parse, collect, sort, return (or the
\* exception of the callback rejects the call).
BatotoTextOk ==
    /\ UNCHANGED <<mdVars, cpVars, tcVars, bpVars, ccVars, viVars, rtVars,
                 lkVars, uiVars>>
    /\ btPc = "awaitText"
    /\ \E now \in NowDays :
         LET outcome == ScrapedChapters(btHtml, now)
         IN  IF outcome.threw
               THEN /\ btPc' = "rejected"
                    /\ btError' = [kind |-> "exception", status |-> 0]
                    /\ UNCHANGED btResult
               ELSE /\ btPc' = "returned"
                    /\ btResult' = outcome.value
                    /\ UNCHANGED btError
    /\ UNCHANGED <<seriesId, btHtml, btRequests, btResponses>>

\* `await response.text()` rejects (the connection broke in the body).
BatotoTextThrows ==
    /\ UNCHANGED <<mdVars, cpVars, tcVars, bpVars, ccVars, viVars, rtVars,
                 lkVars, uiVars>>
    /\ btPc = "awaitText"
    /\ btPc' = "rejected"
    /\ btError' = [kind |-> "network", status |-> 0]
    /\ UNCHANGED <<seriesId, btHtml, btRequests, btResponses, btResult>>

BtIdle ==
    /\ btPc = "idle"
    /\ seriesId = ""
    /\ btHtml = <<>>
    /\ btRequests = <<>>
    /\ btResponses = <<>>
    /\ btResult = <<>>
    /\ btError = NoError

NextBatoto ==
    \/ \E sid \in SeriesIds :
         CallScrapeBatotoChapters(sid) /\ UNCHANGED <<tcVars, rtVars, lkVars>>
    \/ btPc = "awaitFetch" /\ \E html \in HtmlPages : BatotoFetchOk(html)
    \/ \E st \in NotOkStatuses : BatotoFetchNotOk(st)
    \/ \E kind \in {"abort", "network"} : BatotoFetchThrows(kind)
    \/ BatotoTextOk
    \/ BatotoTextThrows

-----------------------------------------------------------------------------
(* testBatotoConnection *)

\* The message of the error scrapeBatotoChapters rejected with: the one
\* `new Error(...)` builds for a non-OK status, else the thrown error's own.
ErrorMessage(err, sid) ==
    IF err.kind = "http"
      THEN <<"Batoto returned ", err.status, " for series ", sid>>
      ELSE <<err.kind>>

\* Mutant of ConnectionOk: the count is left at 0.
ConnectionOkCountsNone(chapters) ==
    [success |-> TRUE, chapterCount |-> 0, error |-> Undefined]

\* `return { success: true, chapterCount: chapters.length }`
ConnectionOk(chapters) ==
    [success |-> TRUE, chapterCount |-> Len(chapters), error |-> Undefined]

\* `return { success: false, chapterCount: 0, error: error instanceof Error
\*     ? error.message : "Unknown error" }`; everything the scrape throws is
\* an Error.
ConnectionFailed(err, sid) ==
    [success |-> FALSE, chapterCount |-> 0,
     error |-> Some(ErrorMessage(err, sid))]

\* testBatotoConnection(seriesId) is called: inside the try block it calls
\* scrapeBatotoChapters and awaits it.
CallTestBatotoConnection(sid) ==
    /\ tcPc = "idle"
    /\ CallScrapeBatotoChapters(sid)
    /\ tcPc' = "awaitScrape"
    /\ UNCHANGED tcResult

\* The awaited scrape resolved: the try block returns.
ConnectionScrapeResolved ==
    /\ UNCHANGED <<mdVars, cpVars, btVars, bpVars, ccVars, viVars, rtVars,
                 lkVars, uiVars>>
    /\ tcPc = "awaitScrape"
    /\ btPc = "returned"
    /\ tcPc' = "resolved"
    /\ tcResult' = ConnectionOk(btResult)

\* The awaited scrape rejected: the catch block returns.
ConnectionScrapeRejected ==
    /\ UNCHANGED <<mdVars, cpVars, btVars, bpVars, ccVars, viVars, rtVars,
                 lkVars, uiVars>>
    /\ tcPc = "awaitScrape"
    /\ btPc = "rejected"
    /\ tcPc' = "resolved"
    /\ tcResult' = ConnectionFailed(btError, seriesId)

TcIdle ==
    /\ tcPc = "idle"
    /\ tcResult = Undefined

NextTestConnection ==
    \/ \E sid \in SeriesIds :
         CallTestBatotoConnection(sid) /\ UNCHANGED <<rtVars, lkVars>>
    \/ btPc = "awaitFetch" /\ \E html \in HtmlPages : BatotoFetchOk(html)
    \/ \E st \in NotOkStatuses : BatotoFetchNotOk(st)
    \/ \E kind \in {"abort", "network"} : BatotoFetchThrows(kind)
    \/ BatotoTextOk
    \/ BatotoTextThrows
    \/ ConnectionScrapeResolved
    \/ ConnectionScrapeRejected

-----------------------------------------------------------------------------
(* The chapter documents Batoto answers with *)

\* A URL is a tuple of pieces; the pieces the code looks for ("http" at the
\* front, "placeholder", "loading", "avatar", "logo", "icon") are pieces of
\* their own.  An attribute is Null when absent, else Some(text).
Https(path) == <<"https://", path>>
NoAttr == <<>>

\* Elements of the document: pageImg says whether the element matches
\* chapterPage.images; every element with a data-src or data-lazy-src
\* attribute matches chapterPage.imageData.
Elements ==
    { [pageImg |-> TRUE, src |-> Some(Https("cdn/1.jpg")), dataSrc |-> NoAttr,
       dataLazySrc |-> NoAttr, width |-> Some("800"), height |-> Some("1200")],
      [pageImg |-> TRUE, src |-> Some(<<"/img/2.jpg">>), dataSrc |-> NoAttr,
       dataLazySrc |-> NoAttr, width |-> NoAttr, height |-> Some("0")],
      [pageImg |-> TRUE, src |-> Some(<<"/img/", "placeholder", ".gif">>),
       dataSrc |-> Some(Https("cdn/3.jpg")), dataLazySrc |-> NoAttr,
       width |-> NoAttr, height |-> NoAttr],
      [pageImg |-> TRUE, src |-> Some(<<>>), dataSrc |-> NoAttr,
       dataLazySrc |-> Some(Https("cdn/4.jpg")), width |-> Some("auto"),
       height |-> NoAttr],
      [pageImg |-> FALSE, src |-> NoAttr, dataSrc |-> Some(<<"/img/5.jpg">>),
       dataLazySrc |-> NoAttr, width |-> NoAttr, height |-> NoAttr],
      [pageImg |-> FALSE, src |-> Some(Https("cdn/6.jpg")), dataSrc |-> NoAttr,
       dataLazySrc |-> NoAttr, width |-> NoAttr, height |-> NoAttr],
      [pageImg |-> TRUE, src |-> Some(<<"https://", "cdn/", "loading", ".gif">>),
       dataSrc |-> NoAttr, dataLazySrc |-> NoAttr, width |-> NoAttr,
       height |-> NoAttr] }

\* The image URLs the regular expression finds in the script text.
ScriptUrls ==
    { Https("cdn/1.jpg"), Https("cdn/2.png"),
      <<"https://", "cdn/", "avatar", ".png">> }

\* A document holds at most MaxElements such elements and at most
\* MaxScriptUrls matches in its scripts.
MaxElements == 2
MaxScriptUrls == 2
ChapterDocs ==
    [elements : UNION { [1..n -> Elements] : n \in 0..MaxElements },
     scriptUrls : UNION { [1..n -> ScriptUrls] : n \in 0..MaxScriptUrls }]

BatotoChapterIds == {"c1"}

-----------------------------------------------------------------------------
(* scrapeBatotoChapterPages *)

BATOTO_BASE_URL == "https://mto.to"

\* An attribute value in a condition or on the left of `||`: absent and ""
\* are falsy.
TruthyAttr(a) == a # NoAttr /\ a[1] # <<>>

\* `a || b || c` over attribute values: the text of the first truthy one,
\* Null when none is.
FirstTruthy(attrs) ==
    LET hits == { i \in 1..Len(attrs) : TruthyAttr(attrs[i]) }
    IN  IF hits = {} THEN Null ELSE attrs[Least(hits)]

\* `src.startsWith("http") ? src : `${BATOTO_BASE_URL}${src}``
ImageUrlOf(src) ==
    IF src[1] \in {"http://", "https://"} THEN src
    ELSE <<BATOTO_BASE_URL>> \o src

\* `parseInt($img.attr(name) || "0", 10) || undefined`
DimensionOf(attr) ==
    LET text == IF attr # NoAttr /\ attr[1] # "" THEN attr[1] ELSE "0"
    IN  CASE text = "800" -> Some(800)
          [] text = "1200" -> Some(1200)
          [] OTHER -> Undefined

\* Mutant of NextIndex: positions are counted from 1.
NextIndexFromOne(pages) == Len(pages) + 1

\* `index: pages.length`
NextIndex(pages) == Len(pages)

\* pages.push({ index, imageUrl, width, height }); a page without
\* dimensions has them undefined.
PushPage(pages, imageUrl, width, height) ==
    Append(pages, [index |-> NextIndex(pages), imageUrl |-> imageUrl,
                   width |-> width, height |-> height])

\* Strategy 1: every element matching chapterPage.images, in document order.
RECURSIVE Strategy1(_, _)
Strategy1(elements, pages) ==
    IF elements = <<>> THEN pages
    ELSE LET el == Head(elements)
             src == FirstTruthy(<<el.src, el.dataSrc, el.dataLazySrc>>)
             taken == /\ el.pageImg
                      /\ src # Null
                      /\ ~Includes(src[1], "placeholder")
                      /\ ~Includes(src[1], "loading")
         IN  Strategy1(Tail(elements),
                       IF taken
                         THEN PushPage(pages, ImageUrlOf(src[1]),
                                       DimensionOf(el.width),
                                       DimensionOf(el.height))
                         ELSE pages)

\* Strategy 2: every element matching chapterPage.imageData.
RECURSIVE Strategy2(_, _)
Strategy2(elements, pages) ==
    IF elements = <<>> THEN pages
    ELSE LET el == Head(elements)
             src == FirstTruthy(<<el.dataSrc, el.dataLazySrc>>)
             selected == el.dataSrc # NoAttr \/ el.dataLazySrc # NoAttr
         IN  Strategy2(Tail(elements),
                       IF selected /\ src # Null
                         THEN PushPage(pages, ImageUrlOf(src[1]),
                                       Undefined, Undefined)
                         ELSE pages)

\* [...new Set(urlMatches)]: the first occurrence of every URL, in order.
RECURSIVE Unique(_)
Unique(urls) ==
    IF urls = <<>> THEN <<>>
    ELSE LET front == Unique(SubSeq(urls, 1, Len(urls) - 1))
             last == urls[Len(urls)]
         IN  IF \E i \in 1..Len(front) : front[i] = last
               THEN front ELSE Append(front, last)

RECURSIVE PushUrls(_, _)
PushUrls(urls, pages) ==
    IF urls = <<>> THEN pages
    ELSE PushUrls(Tail(urls),
                  PushPage(pages, Head(urls), Undefined, Undefined))

\* Strategy 3: the image URLs in the script text, de-duplicated, without
\* avatars, logos and icons.  `match` gives null when nothing matches.
Strategy3(scriptUrls, pages) ==
    IF scriptUrls = <<>> THEN pages
    ELSE LET uniqueUrls ==
               SelectSeq(Unique(scriptUrls),
                         LAMBDA url : /\ ~Includes(url, "avatar")
                                      /\ ~Includes(url, "logo")
                                      /\ ~Includes(url, "icon"))
         IN  PushUrls(uniqueUrls, pages)

\* Mutant of NoPagesYet: the fallback strategies always run.
NoPagesYetAlways(pages) == TRUE

\* `if (pages.length === 0)`
NoPagesYet(pages) == Len(pages) = 0

\* The body after cheerio.load: the pages collected and the strategies run.
ScrapedPages(doc) ==
    LET p1 == Strategy1(doc.elements, <<>>)
        p2 == IF NoPagesYet(p1) THEN Strategy2(doc.elements, p1) ELSE p1
        p3 == IF NoPagesYet(p2) THEN Strategy3(doc.scriptUrls, p2) ELSE p2
    IN  [pages |-> p3,
         tried |-> <<1>> \o (IF NoPagesYet(p1) THEN <<2>> ELSE <<>>)
                         \o (IF NoPagesYet(p2) THEN <<3>> ELSE <<>>)]

\* Mutant of SourceChapterPagesOf: the referer is left out.
SourceChapterPagesWithoutReferer(chapterId, pages) ==
    [chapterId |-> chapterId, pages |-> pages, referer |-> ""]

\* `return { chapterId, pages, referer: BATOTO_BASE_URL }`
SourceChapterPagesOf(chapterId, pages) ==
    [chapterId |-> chapterId, pages |-> pages, referer |-> BATOTO_BASE_URL]

ChapterRequest(cid) == <<BATOTO_BASE_URL, "/chapter/", cid>>

\* scrapeBatotoChapterPages(chapterId) is called: the fetch is issued.
CallScrapeBatotoChapterPages(cid) ==
    /\ UNCHANGED <<mdVars, cpVars, btVars, tcVars, ccVars, viVars, lkVars,
                 uiVars>>
    /\ bpPc = "idle"
    /\ bpPc' = "awaitFetch"
    /\ bpChapterId' = cid
    /\ bpRequests' = Append(bpRequests, ChapterRequest(cid))
    /\ UNCHANGED <<bpDoc, bpResponses, bpTried, bpResult, bpError>>

\* `await fetchWithTimeout(url)` resolves with an OK response.
BatotoPagesFetchOk(doc) ==
    /\ UNCHANGED <<mdVars, cpVars, btVars, tcVars, ccVars, viVars, rtVars,
                 lkVars, uiVars>>
    /\ bpPc = "awaitFetch"
    /\ bpPc' = "awaitText"
    /\ bpDoc' = doc
    /\ bpResponses' = Append(bpResponses, [ok |-> TRUE, status |-> 200])
    /\ UNCHANGED <<bpChapterId, bpRequests, bpTried, bpResult, bpError>>

\* `await fetchWithTimeout(url)` resolves with a non-OK response: throw.
BatotoPagesFetchNotOk(status) ==
    /\ UNCHANGED <<mdVars, cpVars, btVars, tcVars, ccVars, viVars, rtVars,
                 lkVars, uiVars>>
    /\ bpPc = "awaitFetch"
    /\ bpPc' = "rejected"
    /\ bpError' = [kind |-> "http", status |-> status]
    /\ bpResponses' = Append(bpResponses, [ok |-> FALSE, status |-> status])
    /\ UNCHANGED <<bpChapterId, bpDoc, bpRequests, bpTried, bpResult>>

\* `await fetchWithTimeout(url)` rejects: the timeout aborted the request, or
\* the network failed.
BatotoPagesFetchThrows(kind) ==
    /\ UNCHANGED <<mdVars, cpVars, btVars, tcVars, ccVars, viVars, rtVars,
                 lkVars, uiVars>>
    /\ bpPc = "awaitFetch"
    /\ bpPc' = "rejected"
    /\ bpError' = [kind |-> kind, status |-> 0]
    /\ UNCHANGED <<bpChapterId, bpDoc, bpRequests, bpResponses, bpTried,
                   bpResult>>

\* `await response.text()` resolves: load, run the strategies, return.
BatotoPagesTextOk ==
    /\ UNCHANGED <<mdVars, cpVars, btVars, tcVars, ccVars, viVars, rtVars,
                 lkVars, uiVars>>
    /\ bpPc = "awaitText"
    /\ bpPc' = "returned"
    /\ bpTried' = ScrapedPages(bpDoc).tried
    /\ bpResult' = SourceChapterPagesOf(bpChapterId, ScrapedPages(bpDoc).pages)
    /\ UNCHANGED <<bpChapterId, bpDoc, bpRequests, bpResponses, bpError>>

\* `await response.text()` rejects (the connection broke in the body).
BatotoPagesTextThrows ==
    /\ UNCHANGED <<mdVars, cpVars, btVars, tcVars, ccVars, viVars, rtVars,
                 lkVars, uiVars>>
    /\ bpPc = "awaitText"
    /\ bpPc' = "rejected"
    /\ bpError' = [kind |-> "network", status |-> 0]
    /\ UNCHANGED <<bpChapterId, bpDoc, bpRequests, bpResponses, bpTried,
                   bpResult>>

BpIdle ==
    /\ bpPc = "idle"
    /\ bpChapterId = ""
    /\ bpDoc = [elements |-> <<>>, scriptUrls |-> <<>>]
    /\ bpRequests = <<>>
    /\ bpResponses = <<>>
    /\ bpTried = <<>>
    /\ bpResult = SourceChapterPagesOf("", <<>>)
    /\ bpError = NoError

NextBatotoPages ==
    \/ \E cid \in BatotoChapterIds :
         CallScrapeBatotoChapterPages(cid) /\ UNCHANGED rtVars
    \/ bpPc = "awaitFetch" /\ \E doc \in ChapterDocs : BatotoPagesFetchOk(doc)
    \/ \E st \in NotOkStatuses : BatotoPagesFetchNotOk(st)
    \/ \E kind \in {"abort", "network"} : BatotoPagesFetchThrows(kind)
    \/ BatotoPagesTextOk
    \/ BatotoPagesTextThrows

\* Either source's page operation, one call of one of them.
NextPages ==
    \/ bpPc = "idle" /\ NextChapterPages
    \/ cpPc = "idle" /\ NextBatotoPages

-----------------------------------------------------------------------------
(* getMangaDexChapterCount and getMangaDexLanguageBreakdown *)

\* A JavaScript number: an integer, or NaN.
Number(n) == [nan |-> FALSE, n |-> n]
NaN == [nan |-> TRUE, n |-> 0]

\* `a - b` where either may be undefined.
Minus(a, b) ==
    IF a = Undefined \/ b = Undefined THEN NaN ELSE Number(a[1] - b[1])

\* The object {}.
EmptyObject == [l \in {} |-> 0]

\* The bodies the proxy may answer with: the JSON value null, or an object
\* whose total, totalExternal and totalByLanguage may each be missing.
MaxTotal == 2
Totals == {Undefined} \cup {Some(n) : n \in 0..MaxTotal}
Breakdowns == UNION { [ls -> 1..MaxTotal] : ls \in SUBSET Languages }
CountBodies ==
    {[isNull |-> TRUE, total |-> Undefined, totalExternal |-> Undefined,
      totalByLanguage |-> Undefined]}
    \cup [isNull : {FALSE}, total : Totals, totalExternal : Totals,
          totalByLanguage : {Undefined} \cup {Some(b) : b \in Breakdowns}]

\* Mutant of CountRequest: the second chapter is asked for.
CountRequestSecond(m) == [mangaId |-> m, limit |-> 1, offset |-> 1]

\* The request URL `/api/reader/${mangaId}/chapters?limit=1&offset=0`.
CountRequest(m) == [mangaId |-> m, limit |-> 1, offset |-> 0]

\* What the early return and the catch block give: 0, {}.
NoCount == Number(0)
NoBreakdown == EmptyObject

\* `return data.total - data.totalExternal`
CountOf(data) == Minus(data.total, data.totalExternal)

\* `return data.totalByLanguage || {}`
BreakdownOf(data) ==
    IF data.totalByLanguage = Undefined THEN EmptyObject
    ELSE data.totalByLanguage[1]

\* getMangaDexChapterCount(mangaId) is called: the fetch is issued.
CallGetMangaDexChapterCount(m) ==
    /\ UNCHANGED <<mdVars, cpVars, btVars, tcVars, bpVars, viVars, rtVars,
                 lkVars, uiVars>>
    /\ ccPc = "idle"
    /\ ccPc' = "awaitFetch"
    /\ ccOp' = "count"
    /\ ccRequests' = Append(ccRequests, CountRequest(m))
    /\ UNCHANGED <<ccBody, ccOutcome, ccCount, ccBreakdown>>

\* getMangaDexLanguageBreakdown(mangaId) is called: the fetch is issued.
CallGetMangaDexLanguageBreakdown(m) ==
    /\ UNCHANGED <<mdVars, cpVars, btVars, tcVars, bpVars, viVars, rtVars,
                 lkVars, uiVars>>
    /\ ccPc = "idle"
    /\ ccPc' = "awaitFetch"
    /\ ccOp' = "breakdown"
    /\ ccRequests' = Append(ccRequests, CountRequest(m))
    /\ UNCHANGED <<ccBody, ccOutcome, ccCount, ccBreakdown>>

\* `await fetch(...)` resolves with an OK response.
CountFetchOk(body) ==
    /\ UNCHANGED <<mdVars, cpVars, btVars, tcVars, bpVars, viVars, rtVars,
                 lkVars, uiVars>>
    /\ ccPc = "awaitFetch"
    /\ ccPc' = "awaitJson"
    /\ ccBody' = body
    /\ UNCHANGED <<ccOp, ccRequests, ccOutcome, ccCount, ccBreakdown>>

\* `await fetch(...)` resolves with a non-OK response: `return 0` / `return {}`.
CountFetchNotOk ==
    /\ UNCHANGED <<mdVars, cpVars, btVars, tcVars, bpVars, viVars, rtVars,
                 lkVars, uiVars>>
    /\ ccPc = "awaitFetch"
    /\ ccPc' = "resolved"
    /\ ccOutcome' = "notOk"
    /\ IF ccOp = "count"
         THEN ccCount' = NoCount /\ UNCHANGED ccBreakdown
         ELSE ccBreakdown' = NoBreakdown /\ UNCHANGED ccCount
    /\ UNCHANGED <<ccOp, ccBody, ccRequests>>

\* `await fetch(...)` or `await response.json()` rejects: the catch block
\* returns 0 / {}.
CountThrows ==
    /\ UNCHANGED <<mdVars, cpVars, btVars, tcVars, bpVars, viVars, rtVars,
                 lkVars, uiVars>>
    /\ ccPc \in {"awaitFetch", "awaitJson"}
    /\ ccPc' = "resolved"
    /\ ccOutcome' = "threw"
    /\ IF ccOp = "count"
         THEN ccCount' = NoCount /\ UNCHANGED ccBreakdown
         ELSE ccBreakdown' = NoBreakdown /\ UNCHANGED ccCount
    /\ UNCHANGED <<ccOp, ccBody, ccRequests>>

\* `await response.json()` resolves: the value is read off the body; reading
\* a property of null throws a TypeError, which the catch block turns into
\* 0 / {}.
CountJsonOk ==
    /\ UNCHANGED <<mdVars, cpVars, btVars, tcVars, bpVars, viVars, rtVars,
                 lkVars, uiVars>>
    /\ ccPc = "awaitJson"
    /\ ccPc' = "resolved"
    /\ ccOutcome' = IF ccBody.isNull THEN "threw" ELSE "ok"
    /\ IF ccOp = "count"
         THEN /\ ccCount' = IF ccBody.isNull THEN NoCount ELSE CountOf(ccBody)
              /\ UNCHANGED ccBreakdown
         ELSE /\ ccBreakdown' = IF ccBody.isNull THEN NoBreakdown
                                ELSE BreakdownOf(ccBody)
              /\ UNCHANGED ccCount
    /\ UNCHANGED <<ccOp, ccBody, ccRequests>>

CcIdle ==
    /\ ccPc = "idle"
    /\ ccOp = ""
    /\ ccBody = [isNull |-> TRUE, total |-> Undefined,
                 totalExternal |-> Undefined, totalByLanguage |-> Undefined]
    /\ ccRequests = <<>>
    /\ ccOutcome = "none"
    /\ ccCount = NaN
    /\ ccBreakdown = EmptyObject

NextCount ==
    \/ \E m \in MangaIds : CallGetMangaDexChapterCount(m)
    \/ \E m \in MangaIds : CallGetMangaDexLanguageBreakdown(m)
    \/ ccPc = "awaitFetch" /\ \E body \in CountBodies : CountFetchOk(body)
    \/ CountFetchNotOk
    \/ CountThrows
    \/ CountJsonOk

-----------------------------------------------------------------------------
(* validateBatotoSeriesInput *)

\* An input is a tuple of pieces.  A piece is one character (a blank, a
\* letter, "_", "-", ".", "/", "?"), the digits "404", or one of the texts the
\* code looks for;
\* no run of the one-character pieces spells one of those texts.
WordPieces == {"a", "_", "-", "batoto", "404"}
StopPieces == {"/", "?", "/series/"}
InputPieces == WordPieces \cup StopPieces \cup {" ", ".", "mto.to", "https:"}

\* The inputs tried: at most MaxInputLen pieces, on their own or behind the
\* front of a series URL.
MaxInputLen == 3
UrlFront == <<"https:", "/", "/", "mto.to", "/series/">>
Inputs ==
    LET tails == UNION { [1..n -> InputPieces] : n \in 0..MaxInputLen }
    IN  tails \cup { UrlFront \o t : t \in tails }

\* The greatest element of a non-empty set of indices.
Greatest(S) == CHOOSE i \in S : \A j \in S : j <= i

\* String.prototype.trim()
Trim(s) ==
    LET inked == { i \in 1..Len(s) : s[i] # " " }
    IN  IF inked = {} THEN <<>> ELSE SubSeq(s, Least(inked), Greatest(inked))

\* url.match(/\/series\/([^/?#]+)/): the text after the first "/series/"
\* that is followed by a character other than "/", "?", "#", up to the next
\* such character; null when there is none.
extractBatotoSeriesId(url) ==
    LET hits == { i \in 1..(Len(url) - 1) :
                    url[i] = "/series/" /\ url[i + 1] \notin StopPieces }
    IN  IF hits = {} THEN Null
        ELSE LET from == Least(hits) + 1
                 stops == { j \in from..Len(url) : url[j] \in StopPieces }
                 to == IF stops = {} THEN Len(url) ELSE Least(stops) - 1
             IN  Some(SubSeq(url, from, to))

\* `trimmed.includes("mto.to") || trimmed.includes("batoto")`
LooksLikeUrl(trimmed) == Includes(trimmed, "mto.to") \/ Includes(trimmed, "batoto")

\* /^[\w-]+$/.test(trimmed)
IsJustAnId(trimmed) ==
    trimmed # <<>> /\ \A i \in 1..Len(trimmed) : trimmed[i] \in WordPieces

validateBatotoSeriesInput(input) ==
    LET trimmed == Trim(input)
    IN  IF LooksLikeUrl(trimmed) THEN extractBatotoSeriesId(trimmed)
        ELSE IF IsJustAnId(trimmed) THEN Some(trimmed)
        ELSE Null

\* validateBatotoSeriesInput(input) is called and returns.
CallValidateBatotoSeriesInput(input) ==
    /\ UNCHANGED <<mdVars, cpVars, btVars, tcVars, bpVars, ccVars, rtVars,
                 lkVars, uiVars>>
    /\ viPc = "idle"
    /\ viPc' = "returned"
    /\ viInput' = input
    /\ viOutput' = validateBatotoSeriesInput(input)

ViIdle ==
    /\ viPc = "idle"
    /\ viInput = <<>>
    /\ viOutput = Null

NextValidate ==
    viPc = "idle" /\ \E input \in Inputs : CallValidateBatotoSeriesInput(input)

-----------------------------------------------------------------------------
(* batotoSource, GET /api/sources/batoto/pages and /api/sources/batoto/chapters *)

REQUEST_DELAY == 500

\* The ids and parameters tried: at most MaxIdLen pieces, with a piece that
\* spells a status code and one that no id may hold; the chapters route also
\* takes a series URL.
MaxIdLen == 2
RouteIdPieces == {"a", "404", "."}
RouteIds == UNION { [1..n -> RouteIdPieces] : n \in 0..MaxIdLen }
PagesRouteParams == {Null} \cup { Some(id) : id \in RouteIds }
ChaptersRouteParams ==
    PagesRouteParams \cup { Some(UrlFront \o id) : id \in RouteIds }
SourceIds == { id \in RouteIds : IsJustAnId(id) }

\* The documents Batoto answers a route's scrape with.
RouteDocs ==
    [elements : {<<>>} \cup { <<el>> : el \in Elements }, scriptUrls : {<<>>}]
RouteHtmlPages == {<<>>} \cup { <<link>> : link \in Links }

\* error.message of what the scrapes throw: the message built for a non-OK
\* status (around the id), the AbortError of the timeout, the TypeError of
\* a failed fetch, the RangeError of toISOString.
ScrapeErrorMessage(err, what, id) ==
    CASE err.kind = "http" ->
           <<"Batoto returned ", ToString(err.status), " for ", what, " ">> \o id
      [] err.kind = "abort" -> <<"This operation was ", "abort", "ed">>
      [] err.kind = "network" -> <<"fetch failed">>
      [] OTHER -> <<"Invalid time value">>

\* The catch block of both routes: the status chosen by the message.
StatusOfMessage(message) ==
    IF Includes(message, "404") THEN 404
    ELSE IF Includes(message, "timeout") \/ Includes(message, "abort") THEN 504
    ELSE 500

\* `!chapterId` / `!seriesIdInput`: the parameter is absent or empty.
MissingParam(param) == param = Null \/ param[1] = <<>>

\* A request or call that ends without a scrape.
RespondAtOnce(op, param, status) ==
    /\ rtPc' = "responded"
    /\ rtOp' = op
    /\ rtParam' = param
    /\ rtStatus' = status
    /\ UNCHANGED <<rtTimer, rtDelays>>
    /\ UNCHANGED <<mdVars, cpVars, btVars, tcVars, bpVars, ccVars, viVars,
                 lkVars, uiVars>>

\* A request or call that goes on to await something.
GoOn(to, op, param) ==
    /\ rtPc' = to
    /\ rtOp' = op
    /\ rtParam' = param
    /\ UNCHANGED <<rtDelays, rtStatus>>

\* GET /api/sources/batoto/pages?chapterId=...: lines 17-36.
CallPagesRoute(param) ==
    /\ rtPc = "idle"
    /\ IF MissingParam(param) THEN RespondAtOnce("pagesRoute", param, 400)
       ELSE IF ~IsJustAnId(param[1]) THEN RespondAtOnce("pagesRoute", param, 400)
       ELSE /\ GoOn("awaitScrape", "pagesRoute", param)
            /\ CallScrapeBatotoChapterPages(param[1])
            /\ UNCHANGED rtTimer

\* The awaited page scrape resolved: 404 without pages, else the result.
PagesRouteResolved ==
    /\ UNCHANGED <<mdVars, cpVars, btVars, tcVars, bpVars, ccVars, viVars,
                 lkVars, uiVars>>
    /\ rtPc = "awaitScrape" /\ rtOp = "pagesRoute"
    /\ bpPc = "returned"
    /\ rtPc' = "responded"
    /\ rtStatus' = IF Len(bpResult.pages) = 0 THEN 404 ELSE 200
    /\ UNCHANGED <<rtOp, rtParam, rtTimer, rtDelays>>

\* The awaited page scrape rejected: the catch block.
PagesRouteRejected ==
    /\ UNCHANGED <<mdVars, cpVars, btVars, tcVars, bpVars, ccVars, viVars,
                 lkVars, uiVars>>
    /\ rtPc = "awaitScrape" /\ rtOp = "pagesRoute"
    /\ bpPc = "rejected"
    /\ rtPc' = "responded"
    /\ rtStatus' = StatusOfMessage(ScrapeErrorMessage(bpError, "chapter",
                                                      bpChapterId))
    /\ UNCHANGED <<rtOp, rtParam, rtTimer, rtDelays>>

\* GET /api/sources/batoto/chapters?seriesId=...: lines 95-116.
CallChaptersRoute(param) ==
    /\ rtPc = "idle"
    /\ IF MissingParam(param) THEN RespondAtOnce("chaptersRoute", param, 400)
       ELSE LET normalized == validateBatotoSeriesInput(param[1])
            IN  IF normalized = Null \/ normalized[1] = <<>>
                  THEN RespondAtOnce("chaptersRoute", param, 400)
                  ELSE /\ GoOn("awaitScrape", "chaptersRoute", param)
                       /\ CallScrapeBatotoChapters(normalized[1])
                       /\ UNCHANGED <<rtTimer, tcVars, lkVars>>

\* The awaited chapter scrape resolved.
ChaptersRouteResolved ==
    /\ UNCHANGED <<mdVars, cpVars, btVars, tcVars, bpVars, ccVars, viVars,
                 lkVars, uiVars>>
    /\ rtPc = "awaitScrape" /\ rtOp = "chaptersRoute"
    /\ btPc = "returned"
    /\ rtPc' = "responded"
    /\ rtStatus' = 200
    /\ UNCHANGED <<rtOp, rtParam, rtTimer, rtDelays>>

\* The awaited chapter scrape rejected: the catch block.
ChaptersRouteRejected ==
    /\ UNCHANGED <<mdVars, cpVars, btVars, tcVars, bpVars, ccVars, viVars,
                 lkVars, uiVars>>
    /\ rtPc = "awaitScrape" /\ rtOp = "chaptersRoute"
    /\ btPc = "rejected"
    /\ rtPc' = "responded"
    /\ rtStatus' = StatusOfMessage(ScrapeErrorMessage(btError, "series",
                                                      seriesId))
    /\ UNCHANGED <<rtOp, rtParam, rtTimer, rtDelays>>

\* batotoSource.getChapterPages(chapterId): `await delay(REQUEST_DELAY)`
\* sets the timer.
CallBatotoGetChapterPages(cid) ==
    /\ UNCHANGED <<mdVars, cpVars, btVars, tcVars, bpVars, ccVars, viVars,
                 lkVars, uiVars>>
    /\ rtPc = "idle"
    /\ GoOn("delaying", "sourcePages", Some(cid))
    /\ rtTimer' = Some(REQUEST_DELAY)

\* The timer fires, delay resolves, and scrapeBatotoChapterPages is called.
DelayElapsed ==
    /\ rtPc = "delaying"
    /\ rtTimer # Null
    /\ rtPc' = "awaitScrape"
    /\ rtTimer' = Null
    /\ rtDelays' = rtDelays + 1
    /\ CallScrapeBatotoChapterPages(rtParam[1])
    /\ UNCHANGED <<rtOp, rtParam, rtStatus>>

\* batotoSource.getChapters(seriesId): scrapeBatotoChapters is called.
CallBatotoGetChapters(sid) ==
    /\ rtPc = "idle"
    /\ GoOn("awaitScrape", "sourceChapters", Some(sid))
    /\ CallScrapeBatotoChapters(sid)
    /\ UNCHANGED <<rtTimer, tcVars, lkVars>>

\* The scrape a batotoSource method returned settles, and the method's
\* promise with it.
SourceCallSettled ==
    /\ UNCHANGED <<mdVars, cpVars, btVars, tcVars, bpVars, ccVars, viVars,
                 lkVars, uiVars>>
    /\ rtPc = "awaitScrape"
    /\ \/ rtOp = "sourcePages" /\ bpPc \in {"returned", "rejected"}
       \/ rtOp = "sourceChapters" /\ btPc \in {"returned", "rejected"}
    /\ rtPc' = "responded"
    /\ UNCHANGED <<rtOp, rtParam, rtTimer, rtDelays, rtStatus>>

RtIdle ==
    /\ rtPc = "idle"
    /\ rtOp = ""
    /\ rtParam = Null
    /\ rtTimer = Null
    /\ rtDelays = 0
    /\ rtStatus = 0

NextBatotoRoutes ==
    \/ rtPc = "idle" /\ \E param \in PagesRouteParams : CallPagesRoute(param)
    \/ rtPc = "idle" /\ \E param \in ChaptersRouteParams : CallChaptersRoute(param)
    \/ \E cid \in SourceIds : CallBatotoGetChapterPages(cid)
    \/ \E sid \in SourceIds : CallBatotoGetChapters(sid)
    \/ DelayElapsed
    \/ bpPc = "awaitFetch" /\ \E doc \in RouteDocs : BatotoPagesFetchOk(doc)
    \/ \E st \in NotOkStatuses : BatotoPagesFetchNotOk(st)
    \/ \E kind \in {"abort", "network"} : BatotoPagesFetchThrows(kind)
    \/ BatotoPagesTextOk
    \/ BatotoPagesTextThrows
    \/ btPc = "awaitFetch" /\ \E html \in RouteHtmlPages : BatotoFetchOk(html)
    \/ \E st \in NotOkStatuses : BatotoFetchNotOk(st)
    \/ \E kind \in {"abort", "network"} : BatotoFetchThrows(kind)
    \/ BatotoTextOk
    \/ BatotoTextThrows
    \/ PagesRouteResolved
    \/ PagesRouteRejected
    \/ ChaptersRouteResolved
    \/ ChaptersRouteRejected
    \/ SourceCallSettled

-----------------------------------------------------------------------------
(* /api/sources/batoto/link: POST links a manga to a Batoto series, DELETE
   unlinks it, GET reports the link. Requests are handled one at a time. *)

\* The rows of the manga table, and an id no row has; an id is a text.
ExistingMangas == {<<"m1">>, <<"m2">>}
RequestMangaIds == {<<"m1">>, <<"m9">>}

\* A value of the JSON column externalSource.
JsonNull == [kind |-> "null", provider |-> "", externalId |-> <<>>]
JsonSource(provider, externalId) ==
    [kind |-> "object", provider |-> provider, externalId |-> externalId]

\* What another writer may leave in the column: nothing, a Batoto link, and
\* objects that are not links (another provider, an empty id).
OtherValues ==
    {JsonNull, JsonSource("batoto", <<"b">>), JsonSource("other", <<"b">>),
     JsonSource("batoto", <<>>)}

\* A field of a JSON body: absent, a number or a string.
JsonAbsent == [type |-> "undefined", truthy |-> FALSE, text |-> <<>>]
JsonNumber == [type |-> "number", truthy |-> TRUE, text |-> <<"5">>]
JsonEmptyString == [type |-> "string", truthy |-> FALSE, text |-> <<>>]
JsonString(s) == [type |-> "string", truthy |-> TRUE, text |-> s]

\* `!x || typeof x !== "string"`
NotAFilledString(x) == ~x.truthy \/ x.type # "string"

\* The bodies POST receives; request.json() rejects what is not JSON.
LinkSeriesInputs == {<<"a">>, <<".">>, UrlFront \o <<"a">>}
LinkBodies ==
    [json : {TRUE},
     mangaId : {JsonAbsent, JsonNumber, JsonEmptyString}
               \cup { JsonString(m) : m \in RequestMangaIds },
     batotoSeriesId : {JsonAbsent, JsonNumber, JsonEmptyString}
                      \cup { JsonString(s) : s \in LinkSeriesInputs }]
      \cup {[json |-> FALSE, mangaId |-> JsonAbsent, batotoSeriesId |-> JsonAbsent]}

\* searchParams.get("mangaId") of DELETE and GET, as a body with that field.
LinkQueries ==
    [json : {TRUE},
     mangaId : {JsonAbsent, JsonEmptyString}
               \cup { JsonString(m) : m \in RequestMangaIds },
     batotoSeriesId : {JsonAbsent}]

\* The pages Batoto answers the connection test with.
LinkHtmlPages == {<<>>} \cup { <<link>> : link \in Links }

\* Mutant of isValidExternalSource: the provider is not looked at.
isValidExternalSourceAnyProvider(data) ==
    data.kind = "object" /\ data.externalId # <<>>

\* isValidExternalSource(data)
isValidExternalSource(data) ==
    /\ data.kind = "object"
    /\ data.provider = "batoto"
    /\ data.externalId # <<>>

\* createExternalSource(provider, externalId)
createExternalSource(provider, externalId) == JsonSource(provider, externalId)

\* Mutant of ConnectionVerified: a series without chapters is linked too.
ConnectionVerifiedEvenEmpty(testResult) == testResult.success

\* `if (!testResult.success)` and `if (testResult.chapterCount === 0)`: the
\* series is linked when neither refuses.
ConnectionVerified(testResult) ==
    testResult.success /\ testResult.chapterCount # 0

\* The record of a write in the history.
Written(kind, value) == [kind |-> kind, value |-> value]

\* The response is sent: the handler returns.
LinkRespond(status) ==
    /\ lkPc' = "responded"
    /\ lkStatus' = status

\* A request arrives.
LinkArrives(method, body) ==
    /\ lkPc \in {"idle", "responded"}
    /\ lkMethod' = method
    /\ lkBody' = body
    /\ lkNormalized' = Null
    /\ lkReply' = Undefined
    /\ lkDbBefore' = lkDb
    /\ UNCHANGED <<lkDb, lkLast>>
    /\ UNCHANGED <<mdVars, cpVars, btVars, tcVars, bpVars, ccVars, viVars,
                 rtVars, uiVars>>

\* POST is called: request.json() is awaited.
CallLinkPost(body) ==
    /\ LinkArrives("POST", body)
    /\ tcPc = "idle"
    /\ lkPc' = "awaitBody"
    /\ lkStatus' = 0

\* request.json() resolved or rejected: the body is checked, the series id
\* normalised, and prisma.manga.findUnique is awaited (lines 94-124).
LinkBodyParsed ==
    /\ lkPc = "awaitBody"
    /\ IF ~lkBody.json THEN LinkRespond(500) /\ UNCHANGED lkNormalized
       ELSE IF NotAFilledString(lkBody.mangaId)
         THEN LinkRespond(400) /\ UNCHANGED lkNormalized
       ELSE IF NotAFilledString(lkBody.batotoSeriesId)
         THEN LinkRespond(400) /\ UNCHANGED lkNormalized
       ELSE LET normalizedSeriesId ==
                    validateBatotoSeriesInput(lkBody.batotoSeriesId.text)
            IN  IF normalizedSeriesId = Null \/ normalizedSeriesId[1] = <<>>
                  THEN LinkRespond(400) /\ UNCHANGED lkNormalized
                  ELSE /\ lkPc' = "awaitFind"
                       /\ lkNormalized' = normalizedSeriesId
                       /\ UNCHANGED lkStatus
    /\ UNCHANGED <<lkDb, lkMethod, lkBody, lkReply, lkDbBefore, lkLast>>
    /\ UNCHANGED <<mdVars, cpVars, btVars, tcVars, bpVars, ccVars, viVars,
                 rtVars, uiVars>>

\* DELETE or GET is called: `!mangaId` answers 400, else findUnique is
\* awaited (lines 202-217, 259-274).
CallLinkQuery(method, query) ==
    /\ LinkArrives(method, query)
    /\ IF NotAFilledString(query.mangaId)
         THEN LinkRespond(400)
         ELSE lkPc' = "awaitFind" /\ lkStatus' = 0

\* findUnique resolved in POST: 404 without the row, else
\* testBatotoConnection is called and awaited (lines 126-134).
LinkPostFound ==
    /\ lkPc = "awaitFind" /\ lkMethod = "POST"
    /\ IF lkBody.mangaId.text \notin ExistingMangas
         THEN /\ LinkRespond(404)
              /\ UNCHANGED <<mdVars, cpVars, btVars, tcVars, bpVars, ccVars,
                             viVars, rtVars, uiVars>>
         ELSE /\ lkPc' = "awaitTest"
              /\ CallTestBatotoConnection(lkNormalized[1])
              /\ UNCHANGED <<lkStatus, rtVars>>
    /\ UNCHANGED <<lkDb, lkMethod, lkBody, lkNormalized, lkReply, lkDbBefore,
                   lkLast>>

\* testBatotoConnection resolved: 400 when it refuses, else
\* prisma.manga.update is awaited (lines 134-165).
LinkTestResolved ==
    /\ lkPc = "awaitTest"
    /\ tcPc = "resolved"
    /\ IF ConnectionVerified(tcResult)
         THEN lkPc' = "awaitUpdate" /\ UNCHANGED lkStatus
         ELSE LinkRespond(400)
    /\ UNCHANGED <<lkDb, lkMethod, lkBody, lkNormalized, lkReply, lkDbBefore,
                   lkLast>>
    /\ UNCHANGED <<mdVars, cpVars, btVars, tcVars, bpVars, ccVars, viVars,
                 rtVars, uiVars>>

\* The update of POST resolved: the column holds the new link (lines 155-179).
LinkPostUpdated ==
    /\ lkPc = "awaitUpdate" /\ lkMethod = "POST"
    /\ LET externalSource == createExternalSource("batoto", lkNormalized[1])
           id == lkBody.mangaId.text
       IN  /\ lkDb' = [lkDb EXCEPT ![id] = externalSource]
           /\ lkLast' = [lkLast EXCEPT ![id] = Written("POST", externalSource)]
    /\ LinkRespond(200)
    /\ UNCHANGED <<lkMethod, lkBody, lkNormalized, lkReply, lkDbBefore>>
    /\ UNCHANGED <<mdVars, cpVars, btVars, tcVars, bpVars, ccVars, viVars,
                 rtVars, uiVars>>

\* findUnique resolved in DELETE: 404 without the row, else the update is
\* awaited (lines 219-236).
LinkDeleteFound ==
    /\ lkPc = "awaitFind" /\ lkMethod = "DELETE"
    /\ IF lkBody.mangaId.text \notin ExistingMangas
         THEN LinkRespond(404)
         ELSE lkPc' = "awaitUpdate" /\ UNCHANGED lkStatus
    /\ UNCHANGED <<lkDb, lkMethod, lkBody, lkNormalized, lkReply, lkDbBefore,
                   lkLast>>
    /\ UNCHANGED <<mdVars, cpVars, btVars, tcVars, bpVars, ccVars, viVars,
                 rtVars, uiVars>>

\* The update of DELETE resolved: the column holds Prisma.JsonNull.
LinkDeleteUpdated ==
    /\ lkPc = "awaitUpdate" /\ lkMethod = "DELETE"
    /\ LET id == lkBody.mangaId.text
       IN  /\ lkDb' = [lkDb EXCEPT ![id] = JsonNull]
           /\ lkLast' = [lkLast EXCEPT ![id] = Written("DELETE", JsonNull)]
    /\ LinkRespond(200)
    /\ UNCHANGED <<lkMethod, lkBody, lkNormalized, lkReply, lkDbBefore>>
    /\ UNCHANGED <<mdVars, cpVars, btVars, tcVars, bpVars, ccVars, viVars,
                 rtVars, uiVars>>

\* findUnique resolved in GET: 404 without the row, else the report
\* (lines 276-290).
LinkGetFound ==
    /\ lkPc = "awaitFind" /\ lkMethod = "GET"
    /\ IF lkBody.mangaId.text \notin ExistingMangas
         THEN LinkRespond(404) /\ UNCHANGED lkReply
         ELSE LET manga == lkDb[lkBody.mangaId.text]
                  hasExternalSource == isValidExternalSource(manga)
              IN  /\ LinkRespond(200)
                  /\ lkReply' =
                       Some([mangaId |-> lkBody.mangaId.text,
                             hasExternalSource |-> hasExternalSource,
                             externalSource |->
                               IF hasExternalSource THEN manga ELSE JsonNull])
    /\ UNCHANGED <<lkDb, lkMethod, lkBody, lkNormalized, lkDbBefore, lkLast>>
    /\ UNCHANGED <<mdVars, cpVars, btVars, tcVars, bpVars, ccVars, viVars,
                 rtVars, uiVars>>

\* An awaited database call rejected: the catch block answers 500.
LinkDatabaseThrows ==
    /\ lkPc \in {"awaitFind", "awaitUpdate"}
    /\ LinkRespond(500)
    /\ UNCHANGED <<lkDb, lkMethod, lkBody, lkNormalized, lkReply, lkDbBefore,
                   lkLast>>
    /\ UNCHANGED <<mdVars, cpVars, btVars, tcVars, bpVars, ccVars, viVars,
                 rtVars, uiVars>>

\* Between two requests another writer of the table sets the column.
OtherWrite(id, value) ==
    /\ lkPc \in {"idle", "responded"}
    /\ lkDb[id] # value
    /\ lkDb' = [lkDb EXCEPT ![id] = value]
    /\ lkLast' = [lkLast EXCEPT ![id] = Written("other", value)]
    /\ lkPc' = "idle"
    /\ lkStatus' = 0
    /\ lkReply' = Undefined
    /\ lkDbBefore' = lkDb'
    /\ UNCHANGED <<lkMethod, lkBody, lkNormalized>>
    /\ UNCHANGED <<mdVars, cpVars, btVars, tcVars, bpVars, ccVars, viVars,
                 rtVars, uiVars>>

LkIdle ==
    /\ lkDb = [id \in ExistingMangas |-> JsonNull]
    /\ lkPc = "idle"
    /\ lkMethod = ""
    /\ lkBody = [json |-> TRUE, mangaId |-> JsonAbsent,
                 batotoSeriesId |-> JsonAbsent]
    /\ lkNormalized = Null
    /\ lkStatus = 0
    /\ lkReply = Undefined
    /\ lkDbBefore = lkDb
    /\ lkLast = [id \in ExistingMangas |-> Written("none", JsonNull)]

NextLink ==
    \/ \E body \in LinkBodies : CallLinkPost(body)
    \/ \E query \in LinkQueries : CallLinkQuery("DELETE", query)
    \/ \E query \in LinkQueries : CallLinkQuery("GET", query)
    \/ LinkBodyParsed
    \/ LinkPostFound
    \/ btPc = "awaitFetch" /\ \E html \in LinkHtmlPages : BatotoFetchOk(html)
    \/ \E st \in NotOkStatuses : BatotoFetchNotOk(st)
    \/ \E kind \in {"abort", "network"} : BatotoFetchThrows(kind)
    \/ BatotoTextOk
    \/ BatotoTextThrows
    \/ ConnectionScrapeResolved
    \/ ConnectionScrapeRejected
    \/ LinkTestResolved
    \/ LinkPostUpdated
    \/ LinkDeleteFound
    \/ LinkDeleteUpdated
    \/ LinkGetFound
    \/ LinkDatabaseThrows
    \/ \E id \in ExistingMangas, value \in OtherValues : OtherWrite(id, value)

-----------------------------------------------------------------------------
(* BatotoReaderPage: the neighbours of the chapter shown *)

\* The chapters are their ids; the list the query returns is any sequence
\* of them.
MaxChapters == 3
ReaderChapterIds == {"c1", "c2", "c3"}
ChapterLists == UNION { [1..n -> ReaderChapterIds] : n \in 0..MaxChapters }
KeyboardKeys == {"ArrowLeft", "ArrowRight", "Escape", "a"}

\* Array.prototype.findIndex: the 0-based index of the first entry with the
\* id, -1 when there is none.
findIndex(chapters, id) ==
    IF \E i \in 1..Len(chapters) : chapters[i] = id
      THEN Least({ i \in 1..Len(chapters) : chapters[i] = id }) - 1
      ELSE -1

\* chapters[i] for a 0-based i: undefined outside the array.
At(chapters, i) ==
    IF i >= 0 /\ i < Len(chapters) THEN Some(chapters[i + 1]) ELSE Undefined

\* `chapterList?.chapters.findIndex((ch) => ch.id === chapterId)`
currentChapterIndexOf(chapterList, chapterId) ==
    IF chapterList = Undefined THEN Undefined
    ELSE Some(findIndex(chapterList[1], chapterId))

\* const prevChapter (lines 145-148)
prevChapterOf(chapterList, chapterId) ==
    LET currentChapterIndex == currentChapterIndexOf(chapterList, chapterId)
    IN  IF currentChapterIndex # Undefined /\ currentChapterIndex[1] > 0
          THEN At(chapterList[1], currentChapterIndex[1] - 1)
          ELSE Null

\* const nextChapter (lines 149-154)
nextChapterOf(chapterList, chapterId) ==
    LET currentChapterIndex == currentChapterIndexOf(chapterList, chapterId)
    IN  IF /\ currentChapterIndex # Undefined
           /\ chapterList # Undefined
           /\ currentChapterIndex[1] < Len(chapterList[1]) - 1
          THEN At(chapterList[1], currentChapterIndex[1] + 1)
          ELSE Null

\* What the render in the current state computes.
prevChapter == prevChapterOf(rdChapterList, rdChapterId)
nextChapter == nextChapterOf(rdChapterList, rdChapterId)

\* router.push(`/read/${mangaId}/batoto/${id}`): the page shows chapter id.
PushChapter(id, via) ==
    /\ rdChapterId' = id
    /\ rdFrom' = rdChapterId
    /\ rdVia' = via
    /\ UNCHANGED <<rdPc, rdChapterList>>

\* The page is opened on a chapter; the chapter list is not loaded yet.
OpenReader(chapterId) ==
    /\ rdPc = "closed"
    /\ rdPc' = "open"
    /\ rdChapterId' = chapterId
    /\ rdChapterList' = Undefined
    /\ rdFrom' = ""
    /\ rdVia' = ""
    /\ UNCHANGED <<apiVars, swVars, sbVars, prVars>>

\* The chapter-list query delivers (again).
ChapterListLoaded(chapters) ==
    /\ rdPc = "open"
    /\ rdChapterList # Some(chapters)
    /\ rdChapterList' = Some(chapters)
    /\ rdFrom' = ""
    /\ rdVia' = ""
    /\ UNCHANGED <<rdPc, rdChapterId>>
    /\ UNCHANGED <<apiVars, swVars, sbVars, prVars>>

\* handleKeyDown (lines 214-222); Escape leaves for the manga's page.
KeyDown(key) ==
    /\ rdPc = "open"
    /\ IF key = "ArrowLeft" /\ prevChapter # Null
         THEN PushChapter(prevChapter[1], key)
       ELSE IF key = "ArrowRight" /\ nextChapter # Null
         THEN PushChapter(nextChapter[1], key)
       ELSE IF key = "Escape"
         THEN /\ rdPc' = "closed"
              /\ rdFrom' = ""
              /\ rdVia' = key
              /\ UNCHANGED <<rdChapterId, rdChapterList>>
       ELSE /\ rdVia' = key
            /\ rdFrom' = ""
            /\ UNCHANGED <<rdPc, rdChapterId, rdChapterList>>
    /\ UNCHANGED <<apiVars, swVars, sbVars, prVars>>

\* The previous-chapter link or button, there when prevChapter is
\* (lines 447-456, 496-503).
ClickPrevious ==
    /\ rdPc = "open"
    /\ prevChapter # Null
    /\ PushChapter(prevChapter[1], "previous")
    /\ UNCHANGED <<apiVars, swVars, sbVars, prVars>>

\* The next-chapter link or button, there when nextChapter is
\* (lines 458-467, 518-525).
ClickNext ==
    /\ rdPc = "open"
    /\ nextChapter # Null
    /\ PushChapter(nextChapter[1], "next")
    /\ UNCHANGED <<apiVars, swVars, sbVars, prVars>>

RdIdle ==
    /\ rdPc = "closed"
    /\ rdChapterId = ""
    /\ rdChapterList = Undefined
    /\ rdFrom = ""
    /\ rdVia = ""

NextReader ==
    \/ \E chapterId \in ReaderChapterIds : OpenReader(chapterId)
    \/ \E chapters \in ChapterLists : ChapterListLoaded(chapters)
    \/ \E key \in KeyboardKeys : KeyDown(key)
    \/ ClickPrevious
    \/ ClickNext

-----------------------------------------------------------------------------
(* The service worker: install, fetch and message handlers *)

CACHE_NAME == "mangaxscope-v1"
STATIC_CACHE_NAME == "mangaxscope-static-v1"
API_CACHE_NAME == "mangaxscope-api-v1"

\* url.pathname as a tuple of pieces: the prefixes and the extensions the
\* handler looks for are pieces of their own.
Paths ==
    {<<"/api/", "manga">>, <<"/">>, <<"/", "app", ".js">>,
     <<"/_next/static/", "chunk">>, <<"/", "manga">>}
FetchRequests ==
    [method : {"GET", "POST"}, protocol : {"https:", "chrome-extension:"},
     pathname : Paths]

\* What the network answers: status and Response.type; an opaque response
\* has status 0.
NetworkResponses ==
    [status : {200, 206, 404}, type : {"basic", "cors"}]
      \cup {[status |-> 0, type |-> "opaque"]}

\* The most cache.put calls waiting at a time.
MaxPuts == 1

\* url.protocol.startsWith('http')
IsHttp(request) == request.protocol \in {"http:", "https:"}

\* url.pathname.startsWith('/api/')
IsApi(request) == request.pathname[1] = "/api/"

\* The test of lines 102-106.
IsStaticAsset(request) ==
    \/ request.pathname[Len(request.pathname)] \in
         {".js", ".css", ".png", ".jpg", ".jpeg", ".gif", ".svg", ".webp",
          ".ico", ".woff", ".woff2", ".ttf", ".eot"}
    \/ request.pathname = <<"/">>
    \/ request.pathname[1] = "/_next/static/"

\* Mutant of Cacheable: every response that is not an error is kept.
CacheableBelow400(response) == response.status < 400

\* `response.status === 200` (lines 72, 136)
Cacheable(response) == response.status = 200

\* The negation of line 115; fetch never resolves with nothing.
CacheableAsset(response) == response.status = 200 /\ response.type = "basic"

\* An entry of a cache, and who wrote it.
CacheEntry(cache, request, response, by) ==
    [cache |-> cache, request |-> request, response |-> response, by |-> by]

\* cache.put(request, response): the entry of the request is replaced.
CachePutInto(entries, put) ==
    { en \in entries : ~(en.cache = put.cache /\ en.request = put.request) }
      \cup {put}

\* caches.match(request): the cached responses of the request.
CacheMatches(request) ==
    { en.response : en \in { x \in swCache : x.request = request } }

\* The 503 of lines 87-94.
OfflineResponse == [status |-> 503, type |-> "default"]

\* What respondWith's promise settles with when fetch rejects unhandled.
NetworkError == [status |-> -1, type |-> "error"]

\* The handler returns with the response for the page.
SwRespond(answer) ==
    /\ swPc' = "responded"
    /\ swAnswer' = answer

\* caches.open(name).then((cache) => cache.put(...)) is started.
SwSchedulePut(cache, response) ==
    swPuts' = swPuts \cup {CacheEntry(cache, swRequest, response, "fetch")}

\* install: cache.addAll(STATIC_ASSETS) stores "/" when every asset
\* answered ok; a failure is logged.
Install(status) ==
    /\ swPc \in {"idle", "responded", "ignored"}
    /\ LET put == CacheEntry(STATIC_CACHE_NAME,
                    [method |-> "GET", protocol |-> "https:", pathname |-> <<"/">>],
                    [status |-> status, type |-> "basic"], "install")
       IN  /\ put \notin swCache
           /\ swCache' = CachePutInto(swCache, put)
    /\ UNCHANGED <<swPuts, swPc, swRequest, swBranch, swFellBack, swAnswer>>
    /\ UNCHANGED <<apiVars, rdVars, sbVars, prVars>>

\* A fetch event: lines 50-66, 102-108, 132-133.
FetchEvent(request) ==
    /\ swPc \in {"idle", "responded", "ignored"}
    /\ Cardinality(swPuts) < MaxPuts
    /\ swRequest' = request
    /\ swAnswer' = Undefined
    /\ swFellBack' = FALSE
    /\ IF request.method # "GET" \/ ~IsHttp(request)
         THEN swPc' = "ignored" /\ swBranch' = ""
       ELSE IF IsApi(request)
         THEN swPc' = "awaitNetwork" /\ swBranch' = "api"
       ELSE IF IsStaticAsset(request)
         THEN swPc' = "awaitMatch" /\ swBranch' = "static"
       ELSE swPc' = "awaitNetwork" /\ swBranch' = "other"
    /\ UNCHANGED <<swCache, swPuts>>
    /\ UNCHANGED <<apiVars, rdVars, sbVars, prVars>>

\* fetch(request) resolved: lines 67-79, 113-125, 134-142.
NetworkResponded(response) ==
    /\ swPc = "awaitNetwork"
    /\ IF swBranch = "static"
         THEN IF CacheableAsset(response)
                THEN SwSchedulePut(STATIC_CACHE_NAME, response)
                ELSE UNCHANGED swPuts
         ELSE IF Cacheable(response)
                THEN SwSchedulePut(IF swBranch = "api" THEN API_CACHE_NAME
                                   ELSE CACHE_NAME, response)
                ELSE UNCHANGED swPuts
    /\ SwRespond(Some(response))
    /\ UNCHANGED <<swCache, swRequest, swBranch, swFellBack>>
    /\ UNCHANGED <<apiVars, rdVars, sbVars, prVars>>

\* fetch(request) rejected: the API and the other branch ask the cache
\* (lines 80-82, 143-144), the static branch has no catch.
NetworkFailed ==
    /\ swPc = "awaitNetwork"
    /\ IF swBranch = "static"
         THEN SwRespond(Some(NetworkError)) /\ UNCHANGED swFellBack
         ELSE /\ swPc' = "awaitMatch"
              /\ swFellBack' = TRUE
              /\ UNCHANGED swAnswer
    /\ UNCHANGED <<swCache, swPuts, swRequest, swBranch>>
    /\ UNCHANGED <<apiVars, rdVars, sbVars, prVars>>

\* caches.match(request) resolved with a cached response.
MatchFound(cachedResponse) ==
    /\ swPc = "awaitMatch"
    /\ cachedResponse \in CacheMatches(swRequest)
    /\ SwRespond(Some(cachedResponse))
    /\ UNCHANGED <<swCache, swPuts, swRequest, swBranch, swFellBack>>
    /\ UNCHANGED <<apiVars, rdVars, sbVars, prVars>>

\* caches.match(request) resolved with undefined: the static branch goes to
\* the network (line 113), the API branch answers 503 (lines 87-94), the
\* other branch answers with the undefined (line 144).
MatchMissed ==
    /\ swPc = "awaitMatch"
    /\ CacheMatches(swRequest) = {}
    /\ IF swBranch = "static"
         THEN swPc' = "awaitNetwork" /\ UNCHANGED swAnswer
       ELSE IF swBranch = "api" THEN SwRespond(Some(OfflineResponse))
       ELSE SwRespond(Undefined)
    /\ UNCHANGED <<swCache, swPuts, swRequest, swBranch, swFellBack>>
    /\ UNCHANGED <<apiVars, rdVars, sbVars, prVars>>

\* caches.open resolved and cache.put stored the response.
CachePutDone(put) ==
    /\ put \in swPuts
    /\ swPuts' = swPuts \ {put}
    /\ swCache' = CachePutInto(swCache, put)
    /\ UNCHANGED <<swPc, swRequest, swBranch, swFellBack, swAnswer>>
    /\ UNCHANGED <<apiVars, rdVars, sbVars, prVars>>

\* caches.open or cache.put rejected: nothing is stored.
CachePutFailed(put) ==
    /\ put \in swPuts
    /\ swPuts' = swPuts \ {put}
    /\ UNCHANGED <<swCache, swPc, swRequest, swBranch, swFellBack, swAnswer>>
    /\ UNCHANGED <<apiVars, rdVars, sbVars, prVars>>

\* message {type: 'CLEAR_CACHE'}: every cache is deleted.
ClearCache ==
    /\ swCache # {}
    /\ swCache' = {}
    /\ UNCHANGED <<swPuts, swPc, swRequest, swBranch, swFellBack, swAnswer>>
    /\ UNCHANGED <<apiVars, rdVars, sbVars, prVars>>

SwIdle ==
    /\ swCache = {}
    /\ swPuts = {}
    /\ swPc = "idle"
    /\ swRequest = [method |-> "GET", protocol |-> "https:", pathname |-> <<"/">>]
    /\ swBranch = ""
    /\ swFellBack = FALSE
    /\ swAnswer = Undefined

NextServiceWorker ==
    \/ \E status \in {200, 204} : Install(status)
    \/ \E request \in FetchRequests : FetchEvent(request)
    \/ \E response \in NetworkResponses : NetworkResponded(response)
    \/ NetworkFailed
    \/ \E response \in NetworkResponses : MatchFound(response)
    \/ MatchMissed
    \/ \E put \in swPuts : CachePutDone(put)
    \/ \E put \in swPuts : CachePutFailed(put)
    \/ ClearCache

-----------------------------------------------------------------------------
(* SearchBar: the debounced write of q to the URL *)

DEBOUNCE_DELAY == 500

\* What is typed: texts of letters and blanks.
SearchValues == {<<>>, <<" ">>, <<"a">>, <<" ", "a", " ">>, <<"b">>}

\* The most timers one behaviour sets.
MaxTimers == 3

\* Mutant of ClearTimeout: the timer is left running.
ClearTimeoutLeaves(timers, ref) == timers

\* `if (debounceTimerRef.current) clearTimeout(debounceTimerRef.current)`:
\* the timer of that id, when it has not fired, is taken away.
ClearTimeout(timers, ref) ==
    IF ref = Null THEN timers ELSE { t \in timers : t.id # ref[1] }

\* `value.trim() || null`
TrimmedOrNull(value) == IF Trim(value) = <<>> THEN Null ELSE Some(Trim(value))

\* `search.q || ""` with parseAsString.withDefault("")
QueryText(q) == IF q = Null THEN <<>> ELSE q[1]

\* setSearch({q}) and, when q changed, the effect of lines 25-31 that
\* follows the render; `internal` is isInternalUpdateRef.current at the write.
WriteUrl(q, internal, local) ==
    /\ sbUrlQ' = q
    /\ IF q # sbUrlQ
         THEN /\ sbLocalValue' = IF internal THEN local ELSE QueryText(q)
              /\ sbInternal' = FALSE
         ELSE /\ sbLocalValue' = local
              /\ sbInternal' = internal

\* The component is mounted on a URL: localValue starts as search.q || "";
\* the effect of lines 25-31 runs once.
MountSearchBar(q) ==
    /\ ~sbMounted
    /\ sbMounted' = TRUE
    /\ sbUrlQ' = q
    /\ sbLocalValue' = QueryText(q)
    /\ sbIsDebouncing' = FALSE
    /\ sbTimerRef' = Null
    /\ sbInternal' = FALSE
    /\ sbLastInput' = Undefined
    /\ sbLastWrite' = Undefined
    /\ UNCHANGED <<sbTimers, sbNextId>>
    /\ UNCHANGED <<apiVars, rdVars, swVars, prVars>>

\* onChange: handleSearch(value), that is setLocalValue and
\* debouncedSetSearch (lines 33-55).
HandleSearch(value) ==
    /\ sbMounted
    /\ sbNextId <= MaxTimers
    /\ sbLocalValue' = value
    /\ sbIsDebouncing' = IF Trim(value) # <<>> THEN TRUE ELSE sbIsDebouncing
    /\ sbTimers' = ClearTimeout(sbTimers, sbTimerRef)
                     \cup {[id |-> sbNextId, value |-> value]}
    /\ sbTimerRef' = Some(sbNextId)
    /\ sbNextId' = sbNextId + 1
    /\ sbLastInput' = Some([kind |-> "input", value |-> value])
    /\ UNCHANGED <<sbMounted, sbUrlQ, sbInternal, sbLastWrite>>
    /\ UNCHANGED <<apiVars, rdVars, swVars, prVars>>

\* DEBOUNCE_DELAY after it was set a timer fires: lines 44-46.
DebounceTimerFires(timer) ==
    /\ timer \in sbTimers
    /\ sbTimers' = sbTimers \ {timer}
    /\ sbIsDebouncing' = FALSE
    /\ WriteUrl(TrimmedOrNull(timer.value), TRUE, sbLocalValue)
    /\ sbLastWrite' = Some([q |-> TrimmedOrNull(timer.value),
                            after |-> sbLastInput])
    /\ UNCHANGED <<sbMounted, sbTimerRef, sbNextId, sbLastInput>>
    /\ UNCHANGED <<apiVars, rdVars, swVars, prVars>>

\* The clear button, shown while localValue is not empty: clearSearch.
ClearSearch ==
    /\ sbMounted
    /\ sbLocalValue # <<>>
    /\ sbIsDebouncing' = FALSE
    /\ sbTimers' = ClearTimeout(sbTimers, sbTimerRef)
    /\ WriteUrl(Null, TRUE, <<>>)
    /\ sbLastInput' = Some([kind |-> "clear", value |-> <<>>])
    /\ sbLastWrite' = Some([q |-> Null, after |-> sbLastInput'])
    /\ UNCHANGED <<sbMounted, sbTimerRef, sbNextId>>
    /\ UNCHANGED <<apiVars, rdVars, swVars, prVars>>

\* The URL changes from outside (browser navigation): the effect of lines
\* 25-31 copies q into localValue unless the ref says the change is the
\* component's own.
ExternalNavigation(q) ==
    /\ sbMounted
    /\ q # sbUrlQ
    /\ WriteUrl(q, sbInternal, sbLocalValue)
    /\ UNCHANGED <<sbMounted, sbIsDebouncing, sbTimerRef, sbTimers, sbNextId,
                   sbLastInput, sbLastWrite>>
    /\ UNCHANGED <<apiVars, rdVars, swVars, prVars>>

\* The component is unmounted: the cleanup of lines 57-63.
UnmountSearchBar ==
    /\ sbMounted
    /\ sbMounted' = FALSE
    /\ sbTimers' = ClearTimeout(sbTimers, sbTimerRef)
    /\ UNCHANGED <<sbUrlQ, sbLocalValue, sbIsDebouncing, sbTimerRef, sbNextId,
                   sbInternal, sbLastInput, sbLastWrite>>
    /\ UNCHANGED <<apiVars, rdVars, swVars, prVars>>

SbIdle ==
    /\ sbMounted = FALSE
    /\ sbUrlQ = Null
    /\ sbLocalValue = <<>>
    /\ sbIsDebouncing = FALSE
    /\ sbTimerRef = Null
    /\ sbTimers = {}
    /\ sbNextId = 1
    /\ sbInternal = FALSE
    /\ sbLastInput = Undefined
    /\ sbLastWrite = Undefined

NextSearchBar ==
    \/ \E q \in {Null, Some(<<"a">>)} : MountSearchBar(q)
    \/ \E value \in SearchValues : HandleSearch(value)
    \/ \E timer \in sbTimers : DebounceTimerFires(timer)
    \/ ClearSearch
    \/ \E q \in {Null, Some(<<"a">>), Some(<<"b">>)} : ExternalNavigation(q)
    \/ UnmountSearchBar

-----------------------------------------------------------------------------
(* PullToRefresh: the touch handlers of the effect of lines 30-89 *)

\* `threshold = 80`, the default of the prop.
threshold == 80

\* The clientY of a touch and the scroll offsets of the container.
TouchYs == {0, 100, 260, 400}
ScrollTops == {0, 50}

\* The most onRefresh calls counted as pending.
MaxPending == 2

\* Math.min(a, b)
MathMin(a, b) == IF a <= b THEN a ELSE b

\* `Math.min(deltaY * 0.5, threshold * 1.5)`; every deltaY here is even.
PullDistanceOf(deltaY) == MathMin(deltaY \div 2, (threshold * 3) \div 2)

\* Mutant of ShouldRefresh: a refresh under way is not looked at.
ShouldRefreshAlways(pullDistance, isRefreshing) == pullDistance >= threshold

\* `pullDistance >= threshold && !isRefreshing`
ShouldRefresh(pullDistance, isRefreshing) ==
    pullDistance >= threshold /\ ~isRefreshing

\* What the handlers of a render capture.
Captured(pullDistance, isRefreshing) ==
    [pullDistance |-> pullDistance, isRefreshing |-> isRefreshing]

\* The user scrolls the container.
ScrollContainer(top) ==
    /\ top # prScrollTop
    /\ prScrollTop' = top
    /\ UNCHANGED <<prTouching, prCanPull, prStartY, prIsPulling,
                   prIsRefreshing, prPullDistance, prSeen, prPending,
                   prGestureTop, prInvoked, prSettled>>
    /\ UNCHANGED <<apiVars, rdVars, swVars, sbVars>>

\* handleTouchStart; a gesture the browser cancelled ends without touchend,
\* so a touchstart may follow a touchstart.
TouchStart(y) ==
    /\ prTouching' = TRUE
    /\ prGestureTop' = prScrollTop
    /\ IF prScrollTop = 0
         THEN prCanPull' = TRUE /\ prStartY' = Some(y)
         ELSE prCanPull' = FALSE /\ UNCHANGED prStartY
    /\ UNCHANGED <<prScrollTop, prIsPulling, prIsRefreshing, prPullDistance,
                   prSeen, prPending, prInvoked, prSettled>>
    /\ UNCHANGED <<apiVars, rdVars, swVars, sbVars>>

\* handleTouchMove: the state is set; the handlers stay those of the
\* render before until the effect runs again.
TouchMove(y) ==
    /\ prTouching
    /\ IF ~prCanPull \/ prStartY = Null
         THEN UNCHANGED <<prIsPulling, prPullDistance>>
         ELSE LET deltaY == y - prStartY[1]
              IN  IF deltaY > 0 /\ prScrollTop = 0
                    THEN /\ prIsPulling' = TRUE
                         /\ prPullDistance' = PullDistanceOf(deltaY)
                    ELSE UNCHANGED <<prIsPulling, prPullDistance>>
    /\ UNCHANGED <<prScrollTop, prTouching, prCanPull, prStartY,
                   prIsRefreshing, prSeen, prPending, prGestureTop, prInvoked,
                   prSettled>>
    /\ UNCHANGED <<apiVars, rdVars, swVars, sbVars>>

\* The render that follows a state change is committed and the effect runs
\* again: the handlers are replaced by those of the new render.
EffectRuns ==
    /\ prSeen # Captured(prPullDistance, prIsRefreshing)
    /\ prSeen' = Captured(prPullDistance, prIsRefreshing)
    /\ UNCHANGED <<prScrollTop, prTouching, prCanPull, prStartY, prIsPulling,
                   prIsRefreshing, prPullDistance, prPending, prGestureTop,
                   prInvoked, prSettled>>
    /\ UNCHANGED <<apiVars, rdVars, swVars, sbVars>>

\* handleTouchEnd up to `await onRefresh()` (lines 59-68, 73-77); the
\* updates of a touchend are committed before the next event.
TouchEnd ==
    /\ prTouching
    /\ prTouching' = FALSE
    /\ IF ~prCanPull \/ prStartY = Null
         THEN UNCHANGED <<prIsPulling, prIsRefreshing, prPullDistance, prSeen,
                          prStartY, prPending, prInvoked>>
       ELSE IF ShouldRefresh(prSeen.pullDistance, prSeen.isRefreshing)
         THEN /\ prPending < MaxPending
              /\ prIsRefreshing' = TRUE
              /\ prIsPulling' = FALSE
              /\ prPullDistance' = 0
              /\ prSeen' = Captured(0, TRUE)
              /\ prPending' = prPending + 1
              /\ prInvoked' = [started |-> prGestureTop,
                               pullDistance |-> prSeen.pullDistance,
                               pending |-> prPending]
              /\ UNCHANGED prStartY
         ELSE /\ prIsPulling' = FALSE
              /\ prPullDistance' = 0
              /\ prStartY' = Null
              /\ prSeen' = Captured(0, prIsRefreshing)
              /\ UNCHANGED <<prIsRefreshing, prPending, prInvoked>>
    /\ UNCHANGED <<prScrollTop, prCanPull, prGestureTop, prSettled>>
    /\ UNCHANGED <<apiVars, rdVars, swVars, sbVars>>

\* onRefresh settled, resolved or rejected: the finally block
\* (lines 69-72).
RefreshSettled(how) ==
    /\ prPending > 0
    /\ prPending' = prPending - 1
    /\ prIsRefreshing' = FALSE
    /\ prStartY' = Null
    /\ prSettled' = how
    /\ UNCHANGED <<prScrollTop, prTouching, prCanPull, prIsPulling,
                   prPullDistance, prSeen, prGestureTop, prInvoked>>
    /\ UNCHANGED <<apiVars, rdVars, swVars, sbVars>>

PrIdle ==
    /\ prScrollTop = 0
    /\ prTouching = FALSE
    /\ prCanPull = TRUE
    /\ prStartY = Null
    /\ prIsPulling = FALSE
    /\ prIsRefreshing = FALSE
    /\ prPullDistance = 0
    /\ prSeen = Captured(0, FALSE)
    /\ prPending = 0
    /\ prGestureTop = -1
    /\ prInvoked = [started |-> -1, pullDistance |-> 0, pending |-> 0]
    /\ prSettled = ""

NextPullToRefresh ==
    \/ \E top \in ScrollTops : ScrollContainer(top)
    \/ \E y \in TouchYs : TouchStart(y)
    \/ \E y \in TouchYs : TouchMove(y)
    \/ EffectRuns
    \/ TouchEnd
    \/ \E how \in {"resolved", "rejected"} : RefreshSettled(how)

-----------------------------------------------------------------------------
(* Specifications: one per operation, every call starting from rest. *)

Init == MdIdle /\ CpIdle /\ BtIdle /\ TcIdle /\ BpIdle /\ CcIdle
        /\ ViIdle /\ RtIdle /\ LkIdle /\ RdIdle /\ SwIdle
        /\ SbIdle /\ PrIdle

SpecMangaDex == Init /\ [][NextMangaDex]_vars

SpecChapterPages == Init /\ [][NextChapterPages]_vars

SpecBatoto == Init /\ [][NextBatoto]_vars

SpecTestConnection == Init /\ [][NextTestConnection]_vars

SpecBatotoPages == Init /\ [][NextBatotoPages]_vars

SpecPages == Init /\ [][NextPages]_vars

SpecCount == Init /\ [][NextCount]_vars

SpecValidate == Init /\ [][NextValidate]_vars

SpecBatotoRoutes == Init /\ [][NextBatotoRoutes]_vars

SpecLink == Init /\ [][NextLink]_vars

SpecReader == Init /\ [][NextReader]_vars

SpecServiceWorker == Init /\ [][NextServiceWorker]_vars

SpecSearchBar == Init /\ [][NextSearchBar]_vars

SpecPullToRefresh == Init /\ [][NextPullToRefresh]_vars


-----------------------------------------------------------------------------
(* What the upstream delivered, read off the history of requests and        *)
(* responses (not off the adapter's own variables).                         *)

Min(a, b) == IF a < b THEN a ELSE b

\* The chapters of the i-th response, as unified records.
DeliveredPage(i) ==
    IF responses[i].ok
      THEN LET page == UpstreamPage(feed, requests[i].offset, responses[i].n)
           IN  [j \in 1..Len(page) |->
                   [id |-> page[j].id, language |-> page[j].language]]
      ELSE <<>>

RECURSIVE DeliveredUpTo(_)
DeliveredUpTo(k) ==
    IF k = 0 THEN <<>> ELSE DeliveredUpTo(k - 1) \o DeliveredPage(k)

\* Everything delivered during the call, in fetch order.
Delivered == DeliveredUpTo(Len(responses))

\* The positions of the chapters of s written in language l, ascending.
PositionsIn(s, l) ==
    SelectSeq([i \in 1..Len(s) |-> i], LAMBDA i : s[i].language = l)

\* The responses 1..k-1 each carried a full page.
FullPagesBefore(k) ==
    \A i \in 1..(k - 1) : responses[i].ok /\ responses[i].n = 500

\* C1: the first request of every call has offset 0, and a non-OK answer to
\* it rejects the call with the HTTP status; no list is returned.
C1_FirstPageFailureRejects ==
    /\ pc # "idle" =>
         /\ requests # <<>>
         /\ requests[1].offset = 0
         /\ requests[1].mangaId = mangaId
    /\ (responses # <<>> /\ ~responses[1].ok) =>
         /\ pc = "rejected"
         /\ error = [kind |-> "http", status |-> responses[1].status]
         /\ result = <<>>

C1_Witness ==
    /\ pc = "rejected"
    /\ Len(responses) = 1
    /\ ~responses[1].ok
    /\ error = [kind |-> "http", status |-> 404]

\* C2: within one call no offset is requested twice, and every request after
\* the first asks for the previous offset plus 500.
C2_OffsetsAdvanceBy500 ==
    /\ \A i, j \in 1..Len(requests) :
         i # j => requests[i].offset # requests[j].offset
    /\ \A i \in 2..Len(requests) :
         requests[i].offset = requests[i - 1].offset + 500

C2_Witness ==
    /\ Len(requests) = 4
    /\ FullPagesBefore(4)
    /\ requests[4].offset = 1500

\* C3: a request is issued only while every page so far was full, and a call
\* without options whose pages 1..k-1 were full and whose page k was short
\* returns the 500*(k-1)+n delivered chapters in fetch order after exactly k
\* requests.
C3_StopsAtFirstShortPage ==
    /\ \A i \in 1..(Len(requests) - 1) :
         i <= Len(responses) /\ responses[i].ok /\ responses[i].n >= 500
    /\ LET k == Len(responses)
       IN  ( /\ pc = "returned"
             /\ limit = Undefined /\ language = Undefined
             /\ k >= 1
             /\ FullPagesBefore(k)
             /\ responses[k].ok /\ responses[k].n < 500 )
           => /\ Len(requests) = k
              /\ Len(result) = 500 * (k - 1) + responses[k].n
              /\ result = Delivered

\* The specification's example: 500 items, then 200: 700 chapters, 2 requests.
C3_Witness ==
    /\ pc = "returned"
    /\ limit = Undefined /\ language = Undefined
    /\ Len(responses) = 2
    /\ responses[1].ok /\ responses[1].n = 500
    /\ responses[2].ok /\ responses[2].n = 200
    /\ Len(requests) = 2
    /\ Len(result) = 700

\* C4: a non-OK answer to a request with offset > 0 ends the call without
\* rejecting it: no further request, and the chapters of the earlier pages
\* are returned, filtered and limited as usual.
C4_LaterPageFailureReturnsPartial ==
    LET k == Len(responses)
    IN  (k >= 1 /\ ~responses[k].ok /\ requests[k].offset > 0)
        => /\ pc = "returned"
           /\ Len(requests) = k
           /\ error = NoError
           /\ result = PostProcess(Delivered, language, limit)
           /\ (limit = Undefined /\ language = Undefined => result = Delivered)

C4_Witness ==
    /\ pc = "returned"
    /\ Len(responses) = 3
    /\ ~responses[3].ok
    /\ limit = Undefined /\ language = Undefined
    /\ Len(result) = 1000

\* C8: with a language option the result holds the delivered chapters of that
\* language and no other, in fetch order: its j-th entry is the j-th
\* delivered chapter of the language (all of them when no limit is given).
C8_LanguageFilterKeepsOrder ==
    (pc = "returned" /\ language # Undefined)
    => LET d   == Delivered
           pos == PositionsIn(d, language[1])
       IN  /\ Len(result) <= Len(pos)
           /\ limit = Undefined => Len(result) = Len(pos)
           /\ \A j \in 1..Len(result) :
                /\ result[j] = d[pos[j]]
                /\ result[j].language = language[1]

C8_Witness ==
    /\ pc = "returned"
    /\ language = Some("en") /\ limit = Undefined
    /\ Len(result) > 1
    /\ Len(result) < Len(allChapters)
    /\ \E j \in 1..Len(allChapters) : allChapters[j].language = "ja"

\* C9: with a limit option the result is the prefix of length min(limit, n)
\* of the n language-filtered chapters, for every limit >= 0.
C9_LimitTruncates ==
    (pc = "returned" /\ limit # Undefined)
    => LET d   == Delivered
           pos == IF language = Undefined THEN [i \in 1..Len(d) |-> i]
                  ELSE PositionsIn(d, language[1])
       IN  /\ Len(result) = Min(limit[1], Len(pos))
           /\ Len(result) <= limit[1]
           /\ \A j \in 1..Len(result) : result[j] = d[pos[j]]

\* The key has no colon, or nothing before its first colon.
MalformedKey(k) ==
    \/ \A i \in 1..Len(k) : k[i] # ":"
    \/ (k # <<>> /\ k[1] = ":")

\* C5: getChapterPages with a key that has no colon, or nothing before the
\* colon, rejects with the format error and has issued no request.
C5_MalformedKeyRejectsBeforeFetch ==
    (cpPc # "idle" /\ MalformedKey(cpKey))
    => /\ cpPc = "rejected"
       /\ cpError = [kind |-> "format", status |-> 0]
       /\ cpRequests = <<>>

\* mangadexSource.getChapterPages("mcm"): no colon.
C5_Witness ==
    /\ cpPc = "rejected"
    /\ cpKey = <<"m", "c", "m">>
    /\ cpError.kind = "format"
    /\ cpRequests = <<>>

\* C6: the page fetch gets the text before the first colon as manga id and
\* everything after the first colon as chapter id, colons included.
C6_SplitOnFirstColonOnly ==
    cpRequests # <<>>
    => \E i \in 1..Len(cpKey) :
         /\ cpKey[i] = ":"
         /\ \A j \in 1..(i - 1) : cpKey[j] # ":"
         /\ cpRequests[1].mangaId = SubSeq(cpKey, 1, i - 1)
         /\ cpRequests[1].chapterId = SubSeq(cpKey, i + 1, Len(cpKey))

\* The ids of a chapter list are pairwise distinct.
DistinctIds(chs) == Cardinality({chs[i].id : i \in 1..Len(chs)}) = Len(chs)

\* C7: every chapter list returned by getChapters of either source has
\* pairwise-distinct ids.
C7_ChapterIdsDistinct ==
    /\ btPc = "returned" => DistinctIds(btResult)
    /\ pc = "returned" => DistinctIds(result)

ChapterValue(ch) ==
    IF ch.chapter = Null THEN 0 ELSE ParseFloatTenths(ch.chapter[1])

\* How often x occurs in the sequence s.
Occurrences(s, x) == Cardinality({i \in 1..Len(s) : s[i] = x})

\* s and t hold the same entries, each as often.
SameEntries(s, t) ==
    /\ Len(s) = Len(t)
    /\ \A i \in 1..Len(s) : Occurrences(s, s[i]) = Occurrences(t, s[i])

\* C11: the list scrapeBatotoChapters returns is in ascending order of the
\* numeric chapter value, null counting as 0, and holds the chapters exactly
\* as they were pushed (a null chapter number stays null).
C11_SortedAscendingNullAsZero ==
    btPc = "returned"
    => /\ \A i \in 1..(Len(btResult) - 1) :
            ChapterValue(btResult[i]) <= ChapterValue(btResult[i + 1])
       /\ \A now \in NowDays :
            SameEntries(btResult, ChaptersOfLinks(btHtml, now).value)

\* Pushed as "10", null, "1.5"; returned as null, "1.5", "10".
C11_Witness ==
    /\ btPc = "returned"
    /\ Len(btHtml) = 3
    /\ parseChapterNumber(NumberTextOf(btHtml[1])) = Some("10")
    /\ parseChapterNumber(NumberTextOf(btHtml[2])) = Null
    /\ Len(btResult) = 3
    /\ btResult[1].chapter = Null
    /\ btResult[2].chapter = Some("1.5")
    /\ btResult[3].chapter = Some("10")

\* The title a link's chapter should carry: null when the extracted title
\* text is the chapter-number text of the same item, else the title text.
TitleUnlessNumberText(link) ==
    IF TitleTextOf(link) = NumberTextOf(link) THEN Null ELSE TitleTextOf(link)

\* C20: every chapter scrapeBatotoChapters returns has a null title when the
\* item's title text is identical to its chapter-number text, and the title
\* text (null when empty) otherwise.
C20_TitleNullWhenSameAsNumberText ==
    btPc = "returned"
    => \A k \in 1..Len(btHtml) :
         LET link == btHtml[k]
             chapterId == extractBatotoChapterId(link.href)
         IN  chapterId # Null
             => \E i \in 1..Len(btResult) :
                  /\ btResult[i].id = chapterId[1]
                  /\ btResult[i].chapter = parseChapterNumber(NumberTextOf(link))
                  /\ btResult[i].title = TitleUnlessNumberText(link)

\* C14: testBatotoConnection never rejects.  When the scrape resolved it
\* resolves with success = true, chapterCount = the number of chapters
\* scraped and no error field; when the scrape rejected, with
\* success = false, chapterCount = 0 and the error's message.
C14_TestConnectionNeverRejects ==
    /\ tcPc \in {"idle", "awaitScrape", "resolved"}
    /\ tcPc = "awaitScrape" /\ btPc \in {"returned", "rejected"}
         => ENABLED (ConnectionScrapeResolved \/ ConnectionScrapeRejected)
    /\ tcPc = "resolved"
         => /\ btPc \in {"returned", "rejected"}
            /\ btPc = "returned"
                 => /\ tcResult.success = TRUE
                    /\ tcResult.chapterCount = Len(btResult)
                    /\ tcResult.error = Undefined
            /\ btPc = "rejected"
                 => /\ tcResult.success = FALSE
                    /\ tcResult.chapterCount = 0
                    /\ tcResult.error # Undefined
                    /\ tcResult.error[1] = ErrorMessage(btError, seriesId)

\* A scrape of three chapters was reported as a success with count 3.
C14_Witness ==
    /\ tcPc = "resolved"
    /\ btPc = "returned"
    /\ Len(btResult) = 3
    /\ tcResult = [success |-> TRUE, chapterCount |-> 3, error |-> Undefined]

\* The pages of a list carry the indices 0, 1, ..., n-1 in order.
IndexedFromZero(pages) == \A i \in 1..Len(pages) : pages[i].index = i - 1

\* C12: in every page list either source returns (scrapeBatotoChapterPages
\* under any of its strategies, getMangaDexChapterPages), the page at
\* position i carries index i, counting from 0, without gaps or repeats.
C12_PageIndexIsPosition ==
    /\ bpPc = "returned" => IndexedFromZero(bpResult.pages)
    /\ cpPc = "returned" => IndexedFromZero(cpResult.pages)

\* The Batoto scraper returned two pages out of its second strategy, after
\* its first skipped a placeholder; they carry the indices 0 and 1.
C12_Witness ==
    /\ bpPc = "returned"
    /\ cpPc = "idle"
    /\ bpTried = <<1, 2>>
    /\ Len(bpResult.pages) = 2
    /\ bpResult.pages[1].index = 0
    /\ bpResult.pages[2].index = 1

\* The last element of a non-empty sequence.
Last(s) == s[Len(s)]

\* C13: once the response is OK, scrapeBatotoChapterPages does not reject
\* for anything in the document: a document in which all three strategies
\* find nothing gives the requested chapterId, no pages and the Batoto base
\* URL as referer.  A rejection is the non-OK status, or the transport
\* failing (timeout, network).
C13_EmptyDocumentStillResolves ==
    /\ bpPc = "rejected"
         => /\ bpError.kind \in {"http", "abort", "network"}
            /\ bpError.kind = "http"
                 <=> (bpResponses # <<>> /\ ~Last(bpResponses).ok)
    /\ (bpPc = "rejected" /\ bpResponses # <<>> /\ Last(bpResponses).ok)
         => bpError.kind = "network"
    /\ bpPc = "returned"
         => /\ bpResult.chapterId = bpChapterId
            /\ bpResult.referer = "https://mto.to"
            /\ ( /\ Strategy1(bpDoc.elements, <<>>) = <<>>
                 /\ Strategy2(bpDoc.elements, <<>>) = <<>>
                 /\ Strategy3(bpDoc.scriptUrls, <<>>) = <<>> )
                 => bpResult = [chapterId |-> bpChapterId, pages |-> <<>>,
                                referer |-> "https://mto.to"]

\* A document with an image the selectors miss and only an avatar in its
\* scripts was answered with an empty page list.
C13_Witness ==
    /\ bpPc = "returned"
    /\ Len(bpDoc.elements) = 2
    /\ Len(bpDoc.scriptUrls) = 1
    /\ bpTried = <<1, 2, 3>>
    /\ bpResult.pages = <<>>
    /\ bpResult.chapterId = "c1"

\* C19: the strategies run in the order 1, 2, 3 and stop at the first one
\* that yields a page: 2 runs only when 1 found nothing, 3 only when 1 and 2
\* found nothing, and the pages returned are those of one strategy alone.
C19_FirstYieldingStrategyOnly ==
    bpPc = "returned"
    => LET s1 == Strategy1(bpDoc.elements, <<>>)
           s2 == Strategy2(bpDoc.elements, <<>>)
           s3 == Strategy3(bpDoc.scriptUrls, <<>>)
       IN  /\ bpTried \in {<<1>>, <<1, 2>>, <<1, 2, 3>>}
           /\ Len(bpTried) >= 2 <=> s1 = <<>>
           /\ Len(bpTried) = 3 <=> (s1 = <<>> /\ s2 = <<>>)
           /\ bpResult.pages = CASE Len(bpTried) = 1 -> s1
                                 [] Len(bpTried) = 2 -> s2
                                 [] OTHER -> s3

\* A lazy-loaded image (placeholder in src, the real URL in data-src): the
\* first strategy found nothing, the second found the page, the third did not
\* run although the scripts hold image URLs.
C19_Witness ==
    /\ bpPc = "returned"
    /\ bpTried = <<1, 2>>
    /\ Len(bpResult.pages) = 1
    /\ bpDoc.elements[1].pageImg
    /\ Strategy3(bpDoc.scriptUrls, <<>>) # <<>>

\* C16: getMangaDexChapterCount and getMangaDexLanguageBreakdown never
\* reject: a non-OK response and a thrown network or parse error give 0 and
\* {}.  Each makes one request, with limit=1 and offset=0.
C16_CountNeverRejects ==
    /\ ccPc \in {"idle", "awaitFetch", "awaitJson", "resolved"}
    /\ Len(ccRequests) <= 1
    /\ ccPc # "idle" => /\ Len(ccRequests) = 1
                        /\ ccRequests[1].limit = 1
                        /\ ccRequests[1].offset = 0
    /\ ccPc = "awaitFetch" => ENABLED CountFetchNotOk /\ ENABLED CountThrows
    /\ ccPc = "awaitJson" => ENABLED CountJsonOk /\ ENABLED CountThrows
    /\ ccPc = "resolved" /\ ccOutcome \in {"notOk", "threw"}
         => /\ ccOp = "count" => ccCount = [nan |-> FALSE, n |-> 0]
            /\ ccOp = "breakdown" => DOMAIN ccBreakdown = {}

\* The count request was answered with a body that is not an object: the
\* property read threw, and the call resolved to 0 after its one request.
C16_Witness ==
    /\ ccPc = "resolved"
    /\ ccOp = "count"
    /\ ccOutcome = "threw"
    /\ ccBody.isNull
    /\ ccCount = [nan |-> FALSE, n |-> 0]
    /\ ccRequests = <<[mangaId |-> "m1", limit |-> 1, offset |-> 0]>>

\* A bare token: one or more letters, digits, underscores and dashes.
IsBareToken(s) ==
    s # <<>> /\ \A i \in 1..Len(s) : s[i] \in {"a", "_", "-", "batoto", "404"}

\* A full Batoto URL: https://mto.to/series/<id>, possibly with more path or
\* a query behind the id.
IsFullBatotoUrl(s) ==
    /\ Len(s) > Len(UrlFront)
    /\ SubSeq(s, 1, Len(UrlFront)) = UrlFront
    /\ s[Len(UrlFront) + 1] \notin {"/", "?", "/series/"}

\* The id of a full Batoto URL: the path segment behind /series/.
SeriesIdOfUrl(s) ==
    LET from == Len(UrlFront) + 1
        stops == { j \in from..Len(s) : s[j] \in {"/", "?", "/series/"} }
    IN  SubSeq(s, from, IF stops = {} THEN Len(s) ELSE Least(stops) - 1)

Settled == pc \in {"returned", "rejected"}

\* The steps the call has taken: requests issued, responses received, and
\* the settling of its promise.
StepsTaken == Len(requests) + Len(responses) + (IF Settled THEN 1 ELSE 0)

\* No request asks for an offset beyond the ceiling, and a call whose offset
\* has passed it has returned what it accumulated.
WithinSafetyLimit ==
    /\ \A i \in 1..Len(requests) : requests[i].offset <= 10000
    /\ Len(requests) <= 21
    /\ Len(responses) <= Len(requests)
    /\ offset > 10000
         => /\ pc = "returned"
            /\ error = NoError
            /\ Len(allChapters) = offset
            /\ result = PostProcess(allChapters, language, limit)

\* C17: getMangaDexChapters terminates whatever the upstream answers, also
\* when every page is full: every step of a call adds a request, a response
\* or the settling of the call, and there are never more than 21 requests,
\* none with an offset above 10,000; as soon as the offset exceeds 10,000
\* the call returns the accumulated chapters instead of rejecting.
C17_TerminatesAtSafetyLimit ==
    [][WithinSafetyLimit' /\ StepsTaken' > StepsTaken]_vars

\* Twenty-one full pages: the call returned its 10,500 chapters.
C17_Witness ==
    /\ pc = "returned"
    /\ offset = 10500
    /\ Len(requests) = 21
    /\ requests[21].offset = 10000
    /\ limit = Undefined /\ language = Undefined
    /\ Len(result) = 10500

\* C18: at most one page request is in flight, and the request for the next
\* offset is issued only after the response for the previous one has been
\* received, parsed and appended.
C18_OneRequestInFlight ==
    /\ Len(requests) <= Len(responses) + 1
    /\ pc = "awaitJson" => Len(requests) = Len(responses)
    /\ pc = "awaitFetch"
         => /\ Len(requests) = Len(responses) + 1
            /\ \A i \in 1..Len(responses) : responses[i].ok
            /\ Len(allChapters) = batchSize * Len(responses)
            /\ requests[Len(requests)].offset = Len(allChapters)
            /\ allChapters = Delivered

\* The third request is in flight: two responses were received and their
\* 1,000 chapters appended.
C18_Witness ==
    /\ pc = "awaitFetch"
    /\ Len(requests) = 3
    /\ Len(responses) = 2
    /\ Len(allChapters) = 1000

\* C21: every request for a Batoto chapter page is issued only after the
\* 500 ms delay has completed, through batotoSource.getChapterPages and
\* through the pages route alike; chapter-list requests carry no delay.
C21_PageFetchAfterDelay ==
    /\ bpRequests # <<>> => rtDelays >= 1 /\ rtTimer = Null
    /\ btRequests # <<>> => rtDelays = 0

\* The status a route's response should carry by the claim: 400 without a
\* well-formed id, else by how the scrape ended.
ScrapeEnded == IF rtOp = "pagesRoute" THEN bpPc ELSE btPc
ScrapeError == IF rtOp = "pagesRoute" THEN bpError ELSE btError
StatusByOutcome ==
    CASE ScrapeEnded = "idle" -> 400
      [] ScrapeEnded = "returned" ->
           IF rtOp = "pagesRoute" /\ bpResult.pages = <<>> THEN 404 ELSE 200
      [] ScrapeError.kind = "http" /\ ScrapeError.status = 404 -> 404
      [] ScrapeError.kind = "abort" -> 504
      [] OTHER -> 500

\* C22: the pages and chapters routes answer a rejected scrape with 404 for
\* an upstream 404, 504 for a timeout or abort and 500 for every other
\* failure; a missing or malformed id with 400; and the pages route a scrape
\* without pages with 404.
C22_RouteStatusByFailure ==
    (rtPc = "responded" /\ rtOp \in {"pagesRoute", "chaptersRoute"})
    => rtStatus = StatusByOutcome

\* C26: the routes answer 404 only when Batoto answered 404, or when the
\* pages route scraped no page: no other upstream status is reported as 404.
C26_NotFoundOnlyForUpstream404 ==
    (rtPc = "responded" /\ rtOp \in {"pagesRoute", "chaptersRoute"}
       /\ rtStatus = 404)
    => \/ ScrapeEnded = "rejected" /\ ScrapeError = [kind |-> "http", status |-> 404]
       \/ rtOp = "pagesRoute" /\ bpPc = "returned" /\ bpResult.pages = <<>>

\* C25: every non-null value validateBatotoSeriesInput returns, for a bare
\* token or a URL, is made of word characters and dashes only (no blank, no
\* dot, no other URL metacharacter).
C25_ValidatedIdIsWordCharacters ==
    (viPc = "returned" /\ viOutput # Null)
    => /\ viOutput[1] # <<>>
       /\ \A i \in 1..Len(viOutput[1]) :
            viOutput[1][i] \in {"a", "_", "-", "batoto", "404"}

\* The request POST handles has passed every check of lines 98-153.
PostChecksPassed ==
    /\ lkBody.json
    /\ lkBody.mangaId.type = "string" /\ lkBody.mangaId.truthy
    /\ lkBody.batotoSeriesId.type = "string" /\ lkBody.batotoSeriesId.truthy
    /\ validateBatotoSeriesInput(lkBody.batotoSeriesId.text) # Null
    /\ lkBody.mangaId.text \in ExistingMangas
    /\ tcPc = "resolved" /\ tcResult.success /\ tcResult.chapterCount > 0

\* C23: POST /api/sources/batoto/link changes the stored externalSource only
\* after the body's mangaId and batotoSeriesId were non-empty strings,
\* validateBatotoSeriesInput returned a value, the manga existed and
\* testBatotoConnection reported success with chapterCount > 0; what it
\* writes is {provider: "batoto", externalId: the normalized series id} in
\* that manga's row; and when it answers 4xx no manga's externalSource has
\* changed.
C23_LinkWrittenOnlyAfterChecks ==
    (lkMethod = "POST" /\ lkPc # "idle") =>
      /\ lkDb # lkDbBefore =>
           /\ PostChecksPassed
           /\ lkDb = [lkDbBefore EXCEPT ![lkBody.mangaId.text] =
                        JsonSource("batoto",
                          validateBatotoSeriesInput(lkBody.batotoSeriesId.text)[1])]
      /\ (lkPc = "responded" /\ lkStatus \in 400..499) => lkDb = lkDbBefore

\* POST answered 200 for a URL and the row now holds the id taken from it.
C23_Witness ==
    /\ lkMethod = "POST" /\ lkPc = "responded" /\ lkStatus = 200
    /\ lkBody.batotoSeriesId.text = UrlFront \o <<"a">>
    /\ lkDb # lkDbBefore
    /\ lkDb[<<"m1">>] = JsonSource("batoto", <<"a">>)

\* C24: GET for a manga whose externalSource was last written by a
\* successful POST reports hasExternalSource = true and the written
\* {provider: "batoto", externalId}; last written by a successful DELETE, it
\* reports hasExternalSource = false and externalSource = null; and whatever
\* is stored, the externalSource it reports is null or passes
\* isValidExternalSource.
C24_LinkRoundTrip ==
    (lkMethod = "GET" /\ lkPc = "responded" /\ lkStatus = 200) =>
      LET reply == lkReply[1]
          last == lkLast[reply.mangaId]
      IN  /\ last.kind = "POST" =>
                /\ reply.hasExternalSource
                /\ reply.externalSource = last.value
                /\ last.value.provider = "batoto"
                /\ last.value.kind = "object"
          /\ last.kind = "DELETE" =>
                /\ ~reply.hasExternalSource
                /\ reply.externalSource = JsonNull
          /\ reply.externalSource = JsonNull
               \/ /\ reply.externalSource.kind = "object"
                  /\ reply.externalSource.provider = "batoto"
                  /\ reply.externalSource.externalId # <<>>

\* GET answered for a manga that the last POST linked.
C24_Witness ==
    /\ lkMethod = "GET" /\ lkPc = "responded" /\ lkStatus = 200
    /\ lkLast[<<"m1">>].kind = "POST"
    /\ lkReply[1].hasExternalSource
    /\ lkReply[1].externalSource = JsonSource("batoto", <<"a">>)

\* The positions (from 1) at which the list holds the chapter.
PositionsOf(chapters, id) == { i \in 1..Len(chapters) : chapters[i] = id }

\* C27: on the Batoto reader page the previous and the next chapter are the
\* entries of the fetched list immediately before and after the current
\* chapter, and when the current chapterId is not in the list neither is
\* offered.
C27_NeighboursOfCurrentChapter ==
    (rdPc = "open" /\ rdChapterList # Undefined) =>
      LET chapters == rdChapterList[1]
          at == PositionsOf(chapters, rdChapterId)
      IN  /\ at = {} => (prevChapter = Null /\ nextChapter = Null)
          /\ at # {} =>
               /\ prevChapter # Null =>
                    \E i \in at : i > 1 /\ prevChapter[1] = chapters[i - 1]
               /\ nextChapter # Null =>
                    \E i \in at : i < Len(chapters)
                                  /\ nextChapter[1] = chapters[i + 1]

\* What the fetch handler has put or is about to put into a cache.
FetchHandlerWrites == { en \in swCache \cup swPuts : en.by = "fetch" }

\* C28: every response the fetch handler writes into a cache has status
\* 200, whichever of the three branches wrote it, and the request it is
\* stored for is a GET.
C28_OnlyStatus200Cached ==
    \A en \in FetchHandlerWrites :
        /\ en.response.status = 200
        /\ en.request.method = "GET"

\* All three caches hold a response the fetch handler stored.
C28_Witness ==
    \A cache \in {CACHE_NAME, STATIC_CACHE_NAME, API_CACHE_NAME} :
        \E en \in swCache : en.by = "fetch" /\ en.cache = cache

\* C29: in SearchBar at most one debounce timer is pending; every write of
\* q carries the trimmed value of the most recent input (null when that is
\* empty) or null after a clear, so a superseded value is never written;
\* and after clearSearch no timer is left to fire.
C29_OnlyLatestInputWritten ==
    /\ Cardinality(sbTimers) <= 1
    /\ \A t \in sbTimers :
         sbLastInput = Some([kind |-> "input", value |-> t.value])
    /\ sbLastWrite # Undefined =>
         LET write == sbLastWrite[1]
         IN  /\ write.after # Undefined
             /\ write.q = IF write.after[1].kind = "clear" THEN Null
                          ELSE TrimmedOrNull(write.after[1].value)

\* A third keystroke's value was written, trimmed, after two that were
\* superseded.
C29_Witness ==
    /\ sbNextId = 4
    /\ sbTimers = {}
    /\ sbLastWrite = Some([q |-> Some(<<"a">>),
                           after |-> Some([kind |-> "input",
                                           value |-> <<" ", "a", " ">>])])

\* C30: PullToRefresh calls onRefresh only on a touchend of a gesture that
\* started at scrollTop 0, with pullDistance >= threshold, and never while
\* an earlier onRefresh is pending; isRefreshing is true exactly while one
\* is pending, so it is false again once onRefresh has resolved or rejected.
C30_RefreshOnlyOnFullPullOneAtATime ==
    /\ prPending <= 1
    /\ prIsRefreshing <=> prPending = 1
    /\ prInvoked.started # -1 =>
         /\ prInvoked.started = 0
         /\ prInvoked.pullDistance >= threshold
         /\ prInvoked.pending = 0

\* onRefresh was called on a pull of exactly the threshold, rejected, and
\* isRefreshing is false again.
C30_Witness ==
    /\ prInvoked.started = 0
    /\ prInvoked.pullDistance = threshold
    /\ prSettled = "rejected"
    /\ prPending = 0
    /\ ~prIsRefreshing

=============================================================================
